---- MODULE Spec2Model ----
(***************************************************************************)
(* GR-Teleforge batch pipeline: the driver (run_pipeline.py) and its five  *)
(* stages (ingestion_sync, sector_discovery, event_detection,              *)
(* causal_analysis, data_export).                                          *)
(*                                                                         *)
(* The module holds one specification per component:                       *)
(*   Spec    the pipeline driver run_full_pipeline and the __main__ block  *)
(*   SpecL1  ingest_and_synchronize_data on small telemetry files          *)
(*   SpecL2  automated_critical_sector_discovery on small GPS traces       *)
(*   SpecL3  detect_critical_events on generated two-vehicle races         *)
(*   SpecL4  run_causal_analysis on small labelled tables                  *)
(*   SpecL5  consolidate_event_data on small event_metadata directories    *)
(* Time is counted in milliseconds, angles in hundredths of a degree.      *)
(***************************************************************************)
EXTENDS Integers, Sequences, FiniteSets, TLC

VARIABLES
    \* ---- ingestion (ingestion_sync.py) ----
    l1_in,        \* the telemetry files found under the raw data folder
    l1_next,      \* index of the next file of the loop
    l1_list,      \* all_races_list
    l1_out,       \* how the call ended, and the Master Table it returned
    \* ---- driver (run_pipeline.py) ----
    run,          \* number of the current invocation of a script
    entry,        \* the script invoked in this run
    dpc,          \* position inside the script
    stages,       \* stages started in this run, in start order
    ret,          \* what L1 and L2 returned in this run
    log,          \* driver messages printed in this run
    raisedIn,     \* stage that raised in this run, or "none"
    exitCode,     \* process exit status of the finished run, or -1
    event_list,   \* the in-memory event list handed from L3 to L4
    event_files,  \* data_processed/event_metadata: race -> list, or NoFile
    exported,     \* data_processed/events/all_events.json: layout and events
    on_disk,      \* which of master_timeline.parquet, driver_profiles.json exist
    written,      \* path under data_processed -> stages that wrote it in this run
    \* ---- sector discovery (sector_discovery.py) ----
    l2_df,        \* the Master Table handed to L2 (rows in index order)
    l2_out,       \* "pending", "None", or the enhanced table L2 returned
    \* ---- event detection (event_detection.py) ----
    l3_in,        \* parameters of the labelled table handed to L3
    l3_next,      \* index of the next (Track, Race_Number) group of the loop
    l3_all,       \* all_confirmed_events
    l3_files,     \* event_metadata files written by this call
    l3_out,       \* "pending" or the list detect_critical_events returned
    \* ---- causal analysis (causal_analysis.py) ----
    l4_in,        \* parameters of the table and the event list handed to L4
    l4_events,    \* event_list, whose dictionaries the loop updates in place
    l4_next,      \* index of the next event of the loop
    l4_files,     \* event_metadata files: (track, race) -> list, or NoFile
    l4_out,       \* "pending", "returned" or "raised"
    \* ---- export (data_export.py) ----
    l5_files,     \* data_processed/event_metadata: (track, race) -> file
    l5_dir,       \* data_processed/events: all_events.json and the track files
    l5_out        \* how the call ended, and the list it returned

drvVars == <<run, entry, dpc, stages, ret, log, raisedIn, exitCode,
             event_list, event_files, exported, on_disk, written>>

l2Vars == <<l2_df, l2_out>>

l3Vars == <<l3_in, l3_next, l3_all, l3_files, l3_out>>

\* the variables of the stage-level specifications
l4Vars == <<l4_in, l4_events, l4_next, l4_files, l4_out>>

l1Vars == <<l1_in, l1_next, l1_list, l1_out>>

l5Vars == <<l5_files, l5_dir, l5_out>>

compVars == <<l1Vars, l2Vars, l3Vars, l4Vars, l5Vars>>

vars == <<drvVars, compVars>>

-----------------------------------------------------------------------------
(* Generic helpers                                                         *)

NoFile == "NoFile"

Range(s) == {s[i] : i \in DOMAIN s}

RECURSIVE SeqConcat(_, _)
\* concatenation of f[k[1]] \o f[k[2]] \o ... for the key sequence k
SeqConcat(f, k) ==
    IF k = <<>> THEN <<>> ELSE f[Head(k)] \o SeqConcat(f, Tail(k))

-----------------------------------------------------------------------------
(* The resting values of each component; a specification keeps the         *)
(* components it does not exercise at rest.                                *)

DrvIdle ==
    /\ run = 0 /\ entry = "none" /\ dpc = "idle" /\ stages = <<>>
    /\ ret = [L1 |-> "unset", L2 |-> "unset"]
    /\ log = {} /\ raisedIn = "none" /\ exitCode = -1
    /\ event_list = <<>> /\ on_disk = {}
    /\ exported = [layout |-> "none", events |-> <<>>]
    /\ event_files = [rc \in {} |-> NoFile]
    /\ written = [path \in {} |-> {}]

L2Idle == l2_df = [gps_cols |-> FALSE, rows |-> <<>>] /\ l2_out = "pending"

L3Idle ==
    /\ l3_in = [gap |-> 0, profile |-> <<>>, sector |-> 0, second |-> "none",
                cross |-> <<>>]
    /\ l3_next = 0 /\ l3_all = <<>> /\ l3_out = "pending"
    /\ l3_files = [rc \in {} |-> NoFile]

\* the result of a call: status is "pending", "None" (the failure
\* signal), "raised" or "returned"; rows is the table returned
L1Result(status, rows) == [status |-> status, rows |-> rows]

L1Idle ==
    /\ l1_in = <<>> /\ l1_next = 0 /\ l1_list = <<>>
    /\ l1_out = L1Result("pending", <<>>)

L4Idle ==
    /\ l4_in = [evs |-> 0] /\ l4_events = <<>> /\ l4_next = 0
    /\ l4_files = [rc \in {} |-> NoFile] /\ l4_out = "pending"

L5Idle ==
    /\ l5_files = <<>> /\ l5_dir = <<>>
    /\ l5_out = [status |-> "pending", all_events |-> <<>>]

-----------------------------------------------------------------------------
(* Strings that the stages build or inspect are sequences of characters,   *)
(* so that formatting (zfill, f-strings) and startswith are computed.      *)

Digit == <<"0", "1", "2", "3", "4", "5", "6", "7", "8", "9">>

RECURSIVE Str(_)
\* str(n) for a natural number n
Str(n) == IF n < 10 THEN <<Digit[n + 1]>>
          ELSE Str(n \div 10) \o <<Digit[(n % 10) + 1]>>

RECURSIVE zfill(_, _)
\* str.zfill(width)
zfill(s, width) == IF Len(s) >= width THEN s ELSE zfill(<<"0">> \o s, width)

\* str.startswith(prefix)
startswith(s, prefix) ==
    Len(s) >= Len(prefix) /\ SubSeq(s, 1, Len(prefix)) = prefix

STRAIGHT == <<"S", "T", "R", "A", "I", "G", "H", "T">>
S_ == <<"S", "_">>

\* a missing numeric value (NaN) of a cell: a number no channel takes
NaN == -999999

\* a missing Sector_ID (the column is NaN on rows of an unlabelled track)
NoSector == <<"n", "a", "n">>

RECURSIVE MkSeqRange(_, _, _)
\* the sequence <<F(lo), ..., F(hi)>>, built by halving
MkSeqRange(F(_), lo, hi) ==
    IF lo > hi THEN <<>>
    ELSE IF lo = hi THEN <<F(lo)>>
    ELSE LET mid == (lo + hi) \div 2
         IN MkSeqRange(F, lo, mid) \o MkSeqRange(F, mid + 1, hi)

\* the sequence <<F(1), ..., F(n)>> (a column computed row by row)
MkSeq(F(_), n) == MkSeqRange(F, 1, n)

Abs(x) == IF x < 0 THEN -x ELSE x
Max2(a, b) == IF a >= b THEN a ELSE b
Min2(a, b) == IF a <= b THEN a ELSE b

-----------------------------------------------------------------------------
(* L2: automated_critical_sector_discovery                                 *)
(* GPS coordinates are integers in units of 1e-5 degree around (0, 0);     *)
(* smoothed coordinates are kept doubled (a median of an even window is a  *)
(* half unit); a heading is a pair <<h, r>>: h is the bearing in           *)
(* hundredths of a degree and r the distance of the float64 bearing from   *)
(* the planar bearing, in units of 2^-45 degree (the spacing of float64    *)
(* at 180).                                                                *)

ROLLING_MEDIAN_WINDOW == 5
\* CURVATURE_THRESHOLD_DEGREES_PER_STEP = 0.1 degree, in hundredths
CURVATURE_THRESHOLD_100 == 10
\* sector_discovery.py 102: fewer valid GPS rows than this skip the track
MIN_VALID_GPS == 10

\* sector_discovery.py 17-32 evaluated on doubled displacements
\* <<dlat, dlon>> of -2..2 half units: degrees(atan2(y, x)) mod 360, x 100
BearingTable ==
    [d \in (-2..2) \X (-2..2) |->
        CASE d = <<-2, -2>> -> 22500 [] d = <<-2, -1>> -> 20657
          [] d = <<-2, 0>> -> 18000  [] d = <<-2, 1>> -> 15343
          [] d = <<-2, 2>> -> 13500  [] d = <<-1, -2>> -> 24343
          [] d = <<-1, -1>> -> 22500 [] d = <<-1, 0>> -> 18000
          [] d = <<-1, 1>> -> 13500  [] d = <<-1, 2>> -> 11657
          [] d = <<0, -2>> -> 27000  [] d = <<0, -1>> -> 27000
          [] d = <<0, 0>> -> 0       [] d = <<0, 1>> -> 9000
          [] d = <<0, 2>> -> 9000    [] d = <<1, -2>> -> 29657
          [] d = <<1, -1>> -> 31500  [] d = <<1, 0>> -> 0
          [] d = <<1, 1>> -> 4500    [] d = <<1, 2>> -> 6343
          [] d = <<2, -2>> -> 31500  [] d = <<2, -1>> -> 33343
          [] d = <<2, 0>> -> 0       [] d = <<2, 1>> -> 2657
          [] d = <<2, 2>> -> 4500]

\* sector_discovery.py 17-32 evaluated in float64 from the doubled
\* position <<lat1, lon1>> (0..2 half units) to <<lat2, lon2>>: the bearing
\* minus the planar bearing of the displacement, in units of 2^-45 degree.
\* The spherical formula leaves a residue that depends on the position
\* (north-east from <<0, 0>> is 44.999999999999886, south-west back is
\* 225.0000000000001); opposite displacements have planar bearings exactly
\* 180 degrees apart. One row per <<lat1, lon1>>, one column per
\* <<lat2, lon2>>.
BearingResidue ==
    <<   0,   0,   0,   0,  -4,  -6,   0,  -8, -16,
         0,   0,   0,   4,   0,  -4,   8,   0,  -8,
         0,   0,   0,   6,   4,   0,  16,   8,   0,
         0,  -4,  -8,   0,  -8, -16,   0, -20, -28,
         4,   0,  -4,   8,   0,  -8,  20,   0, -20,
         8,   4,   0,  16,   8,   0,  28,  20,   0,
         0,  -8, -16,   0,  -4, -18,   0, -16, -30,
         6,   0,  -8,   4,   0,  -4,  16,   0, -16,
        15,   6,   0,  18,   4,   0,  30,  16,   0 >>

\* sector_discovery.py 17-32; a NaN successor (shift(-1) of the last row)
\* gives a NaN bearing
calculate_bearing(lat1, lon1, lat2, lon2) ==
    IF lat2 = NaN \/ lon2 = NaN THEN <<NaN, 0>>
    ELSE <<BearingTable[<<lat2 - lat1, lon2 - lon1>>],
           BearingResidue[27 * lat1 + 9 * lon1 + 3 * lat2 + lon2 + 1]>>

\* the k-th smallest element of a non-empty sequence of integers
KthSmallest(w, k) ==
    CHOOSE v \in Range(w) :
        /\ Cardinality({j \in DOMAIN w : w[j] < v}) < k
        /\ k <= Cardinality({j \in DOMAIN w : w[j] <= v})

\* twice the median of a non-empty sequence of integers
Median2(w) ==
    LET n == Len(w) IN
    IF n % 2 = 1 THEN 2 * KthSmallest(w, (n + 1) \div 2)
    ELSE KthSmallest(w, n \div 2) + KthSmallest(w, n \div 2 + 1)

\* Series.rolling(ROLLING_MEDIAN_WINDOW, center=True, min_periods=1).median()
\* at position i, doubled
RollingMedian2(x, i) ==
    LET h == ROLLING_MEDIAN_WINDOW \div 2
    IN Median2(SubSeq(x, Max2(1, i - h), Min2(Len(x), i + h)))

\* sector_discovery.py 120-122: diff().fillna(0) and the wrap to +-180,
\* in hundredths of a degree. The comparisons with 180 are those of the
\* float64 difference: headings whose hundredths are 18000 apart belong
\* to opposite displacements, and their residues decide the side.
DeltaHeading(heading, i) ==
    LET nan == i = 1 \/ heading[i][1] = NaN \/ heading[i - 1][1] = NaN
        raw == IF nan THEN 0 ELSE heading[i][1] - heading[i - 1][1]
        res == IF nan THEN 0 ELSE heading[i][2] - heading[i - 1][2]
        up == IF raw > 18000 \/ (raw = 18000 /\ res > 0)
              THEN raw - 36000 ELSE raw
    IN IF up < -18000 \/ (up = -18000 /\ res < 0) THEN up + 36000 ELSE up

\* sector_discovery.py 126
IsCritical(delta) == Abs(delta) > CURVATURE_THRESHOLD_100

\* sector_discovery.py 130: critical and the previous row is not
SectorStart(crit, i) == crit[i] /\ (i = 1 \/ ~crit[i - 1])

\* mutant: the block counter counts falling edges as well as rising edges
SectorBlockId_AllEdges(crit, i) ==
    Cardinality({j \in 1..i : crit[j] # (j > 1 /\ crit[j - 1])})

\* sector_discovery.py 131: cumsum of Sector_Start
SectorBlockId(crit, i) == Cardinality({j \in 1..i : SectorStart(crit, j)})

\* mutant: all critical rows of a track share one identifier
SectorLabel_One(k) == S_ \o zfill(Str(1), 3)

\* sector_discovery.py 138
SectorLabel(k) == S_ \o zfill(Str(k), 3)

\* sector_discovery.py 100-145 for the rows of one track
LabelTrack(track_df) ==
    LET valid_gps == SelectSeq(track_df, LAMBDA r : r.lat # NaN /\ r.long # NaN)
    IN IF Len(valid_gps) < MIN_VALID_GPS
       THEN MkSeq(LAMBDA i :
                [id |-> track_df[i].id, Track |-> track_df[i].Track,
                 lat |-> track_df[i].lat, long |-> track_df[i].long,
                 Delta_Heading |-> NaN, Sector_ID |-> NoSector], Len(track_df))
       ELSE
         LET n == Len(valid_gps)
             lats == MkSeq(LAMBDA i : valid_gps[i].lat, n)
             longs == MkSeq(LAMBDA i : valid_gps[i].long, n)
             Lat_Smoothed == MkSeq(LAMBDA i : RollingMedian2(lats, i), n)
             Long_Smoothed == MkSeq(LAMBDA i : RollingMedian2(longs, i), n)
             Heading == MkSeq(LAMBDA i :
                 calculate_bearing(Lat_Smoothed[i], Long_Smoothed[i],
                     IF i < n THEN Lat_Smoothed[i + 1] ELSE NaN,
                     IF i < n THEN Long_Smoothed[i + 1] ELSE NaN), n)
             delta == MkSeq(LAMBDA i : DeltaHeading(Heading, i), n)
             is_critical == MkSeq(LAMBDA i : IsCritical(delta[i]), n)
         IN MkSeq(LAMBDA i :
                [id |-> valid_gps[i].id, Track |-> valid_gps[i].Track,
                 lat |-> valid_gps[i].lat, long |-> valid_gps[i].long,
                 Delta_Heading |-> delta[i],
                 Sector_ID |-> IF is_critical[i]
                               THEN SectorLabel(SectorBlockId(is_critical, i))
                               ELSE STRAIGHT], n)

RECURSIVE Unique(_)
\* Series.unique(): the distinct values in order of first appearance
Unique(s) ==
    IF s = <<>> THEN <<>>
    ELSE LET r == Unique(SubSeq(s, 1, Len(s) - 1))
         IN IF s[Len(s)] \in Range(r) THEN r ELSE Append(r, s[Len(s)])

\* sector_discovery.py 34-154: None without GPS columns or without rows,
\* else the concatenation of the per-track tables
automated_critical_sector_discovery(df) ==
    IF ~df.gps_cols THEN "None"
    ELSE LET tracks == Unique([i \in DOMAIN df.rows |-> df.rows[i].Track])
             labelled == [t \in Range(tracks) |->
                 LabelTrack(SelectSeq(df.rows, LAMBDA r : r.Track = t))]
         IN IF tracks = <<>> THEN "None" ELSE SeqConcat(labelled, tracks)

\* ---- inputs of SpecL2 ----

\* bound: samples of the track whose trace is enumerated
L2Rows == 10

\* the two GPS positions the enumerated trace moves between
GpsPoints == << <<0, 0>>, <<1, 1>> >>

\* traces of the second track: a square loop driven for three laps (every
\* step turns by 90 degrees), a parked car, a trace too short to label,
\* and the square loop with one sample that has no GPS fix
TraceCatalogue ==
    << << <<0, 0>>, <<0, 1>>, <<1, 1>>, <<1, 0>>, <<0, 0>>, <<0, 1>>,
          <<1, 1>>, <<1, 0>>, <<0, 0>>, <<0, 1>>, <<1, 1>>, <<1, 0>> >>,
       << <<0, 0>>, <<0, 0>>, <<0, 0>>, <<0, 0>>, <<0, 0>>, <<0, 0>>,
          <<0, 0>>, <<0, 0>>, <<0, 0>>, <<0, 0>> >>,
       << <<0, 0>>, <<0, 1>>, <<1, 1>> >>,
       << <<0, 0>>, <<0, 1>>, <<1, 1>>, <<1, 0>>, <<0, 0>>, <<NaN, NaN>>,
          <<1, 1>>, <<1, 0>>, <<0, 0>>, <<0, 1>>, <<1, 1>>, <<1, 0>> >> >>

\* the table of one run: L2Rows samples of Barber (sample nanAt, if any,
\* without GPS fix) followed by the samples of Sonoma
L2Table(bits, nanAt, cat) ==
    LET a == [i \in 1..L2Rows |->
                 [id |-> i, Track |-> "Barber",
                  lat |-> IF i = nanAt THEN NaN ELSE GpsPoints[bits[i] + 1][1],
                  long |-> IF i = nanAt THEN NaN ELSE GpsPoints[bits[i] + 1][2]]]
        tr == TraceCatalogue[cat]
        b == [i \in 1..Len(tr) |->
                 [id |-> L2Rows + i, Track |-> "Sonoma",
                  lat |-> tr[i][1], long |-> tr[i][2]]]
    IN a \o b

\* a table of one track: the square loop, every step a turn of 90 degrees
L2Circle ==
    [i \in DOMAIN TraceCatalogue[1] |->
        [id |-> i, Track |-> "Sonoma",
         lat |-> TraceCatalogue[1][i][1], long |-> TraceCatalogue[1][i][2]]]

L2Inputs ==
    {[gps_cols |-> TRUE, rows |-> L2Table(bits, nanAt, cat)] :
        bits \in [1..L2Rows -> {0, 1}], nanAt \in 0..L2Rows,
        cat \in DOMAIN TraceCatalogue}
    \cup {[gps_cols |-> TRUE, rows |-> L2Circle]}
    \cup {[gps_cols |-> FALSE,
           rows |-> <<[id |-> 1, Track |-> "Barber", lat |-> NaN, long |-> NaN]>>]}

InitL2 ==
    /\ l2_df \in L2Inputs
    /\ l2_out = "pending"
    /\ DrvIdle
    /\ L5Idle
    /\ L3Idle
    /\ L4Idle
    /\ L1Idle

\* one call of automated_critical_sector_discovery(df)
L2_discover ==
    /\ l2_out = "pending"
    /\ l2_df.rows # <<>>
    /\ l2_out' = automated_critical_sector_discovery(l2_df)
    /\ UNCHANGED <<l2_df, drvVars, l5Vars, l1Vars, l3Vars, l4Vars>>

NextL2 == L2_discover

SpecL2 == InitL2 /\ [][NextL2]_vars

-----------------------------------------------------------------------------
(* L3: detect_critical_events                                              *)
(* Time is in milliseconds, lap distance in metres.                        *)

\* RESAMPLE_RATE = '50ms': the cadence of the rows L3 reads
GRID_MS == 50
HYSTERESIS_BUFFER_METERS == 2
\* PERSISTENCE_THRESHOLD_SECONDS = 0.3, in milliseconds
PERSISTENCE_THRESHOLD_MS == 300
\* event_detection.py 59: races with fewer rows are skipped
MIN_RACE_ROWS == 100
\* event_detection.py 65: races with a shorter track are skipped
MIN_TRACK_LENGTH == 1000

_L == <<"_", "L">>
_WIN == <<"_", "W", "I", "N">>
_LOS == <<"_", "L", "O", "S">>

\* event_detection.py 140
EventId(sector, lap, winner, loser) ==
    sector \o _L \o Str(lap) \o _WIN \o winner \o _LOS \o loser

MaxOf(S) == CHOOSE x \in S : \A y \in S : y <= x

MinOf(S) == CHOOSE x \in S : \A y \in S : x <= y

\* event_detection.py 58: the rows of one race that have a lap distance,
\* in ascending Time (line 73)
RaceGroup(df, rc) ==
    SelectSeq(df, LAMBDA r : r.Track = rc[1] /\ r.Race_Number = rc[2]
                             /\ r.Laptrigger_lapdist_dls # NaN)

\* event_detection.py 64
TrackLength(group) ==
    MaxOf({group[i].Laptrigger_lapdist_dls : i \in DOMAIN group})

\* sort_values(by='Time') is not a stable sort: rows of one timestamp come
\* in either order. Rows of the timestamps in flip come in reverse table
\* order, all others in table order.
Earlier(group, flip, i, j) ==
    \/ group[i].Time < group[j].Time
    \/ /\ group[i].Time = group[j].Time
       /\ IF group[i].Time \in flip THEN i > j ELSE i < j

RECURSIVE SortedByTime(_, _, _)
\* event_detection.py 108: the rows S of group in ascending Time
SortedByTime(group, flip, S) ==
    IF S = {} THEN <<>>
    ELSE LET first == CHOOSE x \in S :
                          \A y \in S \ {x} : Earlier(group, flip, x, y)
         IN <<first>> \o SortedByTime(group, flip, S \ {first})

\* event_detection.py 70 and 77
LapDistNormalized(group, track_length) ==
    MkSeq(LAMBDA i : group[i].Laptrigger_lapdist_dls % track_length, Len(group))

RECURSIVE SameTimeBefore(_, _, _)
\* the rows of the timestamp of row i that precede it in the table
SameTimeBefore(group, i, j) ==
    IF j = 0 \/ group[j].Time # group[i].Time THEN {}
    ELSE {j} \cup SameTimeBefore(group, i, j - 1)

RECURSIVE SameTimeAfter(_, _, _)
\* the rows of the timestamp of row i that follow it in the table
SameTimeAfter(group, i, j) ==
    IF j > Len(group) \/ group[j].Time # group[i].Time THEN {}
    ELSE {j} \cup SameTimeAfter(group, i, j + 1)

\* event_detection.py 74: the other rows of the Time_Group of row i
TimeGroup(group, i) ==
    SameTimeBefore(group, i, i - 1) \cup SameTimeAfter(group, i, i + 1)

\* event_detection.py 78-79: rank(method='first', ascending=False) within
\* the rows of one timestamp
CurrentPosition(group, norm, flip) ==
    MkSeq(LAMBDA i :
        1 + Cardinality({j \in TimeGroup(group, i) :
                \/ norm[j] > norm[i]
                \/ norm[j] = norm[i] /\ Earlier(group, flip, j, i)}),
        Len(group))

RECURSIVE PrevOfVehicle(_, _, _)
\* the last row before row i of the vehicle of row i; 0 when there is none
PrevOfVehicle(group, i, j) ==
    IF j = 0 THEN 0
    ELSE IF group[j].Vehicle_ID = group[i].Vehicle_ID THEN j
    ELSE PrevOfVehicle(group, i, j - 1)

\* event_detection.py 82-83: groupby('Vehicle_ID').shift(1)
PrevRow(group) == MkSeq(LAMBDA i : PrevOfVehicle(group, i, i - 1), Len(group))

\* mutant: the restriction to critical sectors is lost
InCriticalSector_All(row) == TRUE

\* event_detection.py 87
InCriticalSector(row) == startswith(row.Sector_ID, S_)

\* mutant: the spatial buffer is lost
PassesHysteresis_NoBuffer(norm, prev, i) == prev[i] # 0

\* event_detection.py 101-102; a vehicle's first row has no Delta_Dist
PassesHysteresis(norm, prev, i) ==
    prev[i] # 0 /\ Abs(norm[i] - norm[prev[i]]) > HYSTERESIS_BUFFER_METERS

\* event_detection.py 86-105: the rows that stay in potential_events
PotentialEvents(group, norm, cur, prev) ==
    {i \in DOMAIN group :
        /\ InCriticalSector(group[i])
        /\ (prev[i] = 0 \/ cur[i] # cur[prev[i]])
        /\ PassesHysteresis(norm, prev, i)}

\* event_detection.py 109: 1 for a gained position, 0 otherwise
PositionChange(cur, prev, i) == IF cur[i] < cur[prev[i]] THEN 1 ELSE 0

\* event_detection.py 110: cumsum of (Position_Change.diff() != 0)
EventGroupId(pe, cur, prev) ==
    MkSeq(LAMBDA k :
        Cardinality({m \in 1..k :
            m = 1 \/ PositionChange(cur, prev, pe[m])
                     # PositionChange(cur, prev, pe[m - 1])}),
        Len(pe))

\* event_detection.py 117
Duration(group, members) ==
    MaxOf({group[i].Time : i \in members}) - MinOf({group[i].Time : i \in members})

\* event_detection.py 114-119 without the duration test of line 119
IsConfirmed_AnySpan(group, members) ==
    Cardinality(members) >= 2

\* event_detection.py 114-119
IsConfirmed(group, members) ==
    /\ Cardinality(members) >= 2
    /\ Duration(group, members) >= PERSISTENCE_THRESHOLD_MS

\* event_detection.py 122-124: sort_values(by='Current_Position') is not
\* stable either: the first row is any row of the best position, the last
\* row any other row of the worst position
WinnerLoserPairs(cur, members) ==
    LET best == MinOf({cur[i] : i \in members})
        worst == MaxOf({cur[i] : i \in members})
    IN {<<w, l>> \in members \X members :
            w # l /\ cur[w] = best /\ cur[l] = worst}

\* event_detection.py 127-140
MakeEvent(group, track_length, rc, w, l) ==
    LET winner == group[w]
        loser == group[l]
        lap_number == (winner.Laptrigger_lapdist_dls \div track_length) + 1
    IN [Timestamp |-> winner.Time,
        Winner_ID |-> Str(winner.Vehicle_ID),
        Loser_ID |-> Str(loser.Vehicle_ID),
        Sector_ID |-> winner.Sector_ID,
        Track |-> rc[1],
        Race_Number |-> rc[2],
        Lap_Number |-> lap_number,
        Critical_Event_ID |->
            EventId(winner.Sector_ID, lap_number, Str(winner.Vehicle_ID),
                    Str(loser.Vehicle_ID))]

\* event_detection.py 142-144
AppendConfirmed(confirmed, event) ==
    IF \E k \in DOMAIN confirmed :
           confirmed[k].Critical_Event_ID = event.Critical_Event_ID
    THEN confirmed
    ELSE Append(confirmed, event)

RECURSIVE GroupOutcomes(_, _, _, _, _, _, _)
\* event_detection.py 113-144: the lists confirmed_events_race can end as,
\* from event group g on, one per choice of the unstable sort of line 122
GroupOutcomes(group, track_length, rc, cur, members, g, confirmed) ==
    IF g > Len(members) THEN {confirmed}
    ELSE IF ~IsConfirmed(group, members[g])
         THEN GroupOutcomes(group, track_length, rc, cur, members, g + 1, confirmed)
         ELSE UNION {GroupOutcomes(group, track_length, rc, cur, members, g + 1,
                         AppendConfirmed(confirmed,
                             MakeEvent(group, track_length, rc, p[1], p[2]))) :
                     p \in WinnerLoserPairs(cur, members[g])}

\* event_detection.py 107-144 for one order sortFlip of the rows of equal
\* Time in potential_events
OutcomesForOrder(group, track_length, rc, cur, prev, cand, sortFlip) ==
    LET pe == SortedByTime(group, sortFlip, cand)
        gid == EventGroupId(pe, cur, prev)
        ngroups == IF pe = <<>> THEN 0 ELSE gid[Len(pe)]
        members == MkSeq(LAMBDA g : {pe[k] : k \in {m \in DOMAIN pe : gid[m] = g}},
                         ngroups)
    IN GroupOutcomes(group, track_length, rc, cur, members, 1, <<>>)

\* event_detection.py 69-144 for one order rankFlip of the rows of equal
\* Time in group
RaceOutcomesFor(group, track_length, rc, norm, rankFlip) ==
    LET cur == CurrentPosition(group, norm, rankFlip)
        prev == PrevRow(group)
        cand == PotentialEvents(group, norm, cur, prev)
        shared == {group[i].Time : i \in {k \in cand :
                      \E j \in cand : j # k /\ group[j].Time = group[k].Time}}
    IN UNION {OutcomesForOrder(group, track_length, rc, cur, prev, cand, sf) :
                 sf \in SUBSET shared}

\* the timestamps at which two rows of the race have the same normalized
\* lap distance (the rank depends on the row order there)
TieTimes(group, norm) ==
    {group[i].Time : i \in {k \in DOMAIN group :
        \E j \in TimeGroup(group, k) : norm[j] = norm[k]}}

\* event_detection.py 48-144: every list of confirmed events the loop body
\* can produce for race rc
detect_race(df, rc) ==
    LET group == RaceGroup(df, rc)
    IN IF Len(group) < MIN_RACE_ROWS THEN {<<>>}
       ELSE LET track_length == TrackLength(group)
            IN IF track_length < MIN_TRACK_LENGTH THEN {<<>>}
               ELSE LET norm == LapDistNormalized(group, track_length)
                    IN UNION {RaceOutcomesFor(group, track_length, rc, norm, rf) :
                                 rf \in SUBSET TieTimes(group, norm)}

\* ---- inputs of SpecL3 ----

\* bound: timestamps per race (two vehicles give 2 * L3Steps rows)
L3Steps == 50
\* bound: timestamps per speed segment of vehicle 1
SegLen == 10

NumSegs == (L3Steps + SegLen - 1) \div SegLen

\* metres per step of vehicle 2, and the two speeds of vehicle 1
V2Speed == 3
V1Speeds == {1, 5}

\* lap distance of both vehicles at the first timestamp
L3Base == 1000

\* head start of vehicle 1 over vehicle 2 at the first timestamp
L3Gaps == {-9, 9}

RECURSIVE Travelled(_, _, _)
\* metres vehicle 1 has travelled after t steps, summed from segment seg on
Travelled(profile, t, seg) ==
    LET done == (seg - 1) * SegLen
    IN IF t <= done THEN 0
       ELSE profile[seg] * Min2(SegLen, t - done) + Travelled(profile, t, seg + 1)

\* the labels of the first two critical sectors of a track
S_001 == SectorLabel(1)
S_002 == SectorLabel(2)

\* Sector_ID of the rows of step t (0-based) under the four labellings
SectorAt(pattern, t) ==
    CASE pattern = 1 -> S_001
      [] pattern = 2 -> IF 2 * t < L3Steps THEN S_001 ELSE S_002
      [] pattern = 3 -> IF 2 * t < L3Steps THEN STRAIGHT ELSE S_001
      [] OTHER -> STRAIGHT
SectorPatterns == 1..4

\* the rows of one race: vehicles 1 and 2 at steps 0 .. L3Steps-1
RaceTable(p, track, race, base, missing) ==
    MkSeq(LAMBDA i :
        LET t == (i - 1) \div 2
            v == ((i - 1) % 2) + 1
        IN [Time |-> t * GRID_MS, Track |-> track, Race_Number |-> race,
            Vehicle_ID |-> v,
            Laptrigger_lapdist_dls |->
                IF i = missing THEN NaN
                ELSE IF v = 1 THEN base + p.gap + Travelled(p.profile, t, 1)
                ELSE base + V2Speed * t,
            Sector_ID |-> SectorAt(p.sector, t)],
        2 * L3Steps)

\* lap distance of the sample a vehicle logs on the finish line, before the
\* per-lap counter starts again
L3Lap == 2000

\* single crossings <<a, b, start>>: vehicle 1 has just crossed the finish
\* line and then gains a metres per step, vehicle 2 starts start metres
\* into the lap and changes by b metres per step
L3Crossings == {<<5, -5, 303>>, <<10, 5, 147>>, <<1, -1, 61>>, <<2, 1, 29>>}

\* the rows of a race with a single crossing: vehicles 1 and 2 at steps
\* 0 .. L3Steps-1
CrossingTable(p, track, race) ==
    MkSeq(LAMBDA i :
        LET t == (i - 1) \div 2
            v == ((i - 1) % 2) + 1
        IN [Time |-> t * GRID_MS, Track |-> track, Race_Number |-> race,
            Vehicle_ID |-> v,
            Laptrigger_lapdist_dls |->
                IF v = 1 THEN (IF t = 0 THEN L3Lap ELSE p.cross[1] * t)
                ELSE p.cross[3] + p.cross[2] * t,
            Sector_ID |-> SectorAt(p.sector, t)],
        2 * L3Steps)

\* head start of vehicle 2 in a slow race
SlowGap == 2 * HYSTERESIS_BUFFER_METERS

\* the rows of a slow race: vehicle 1 has just crossed the finish line and
\* then moves 0 or 2 m per step (2 m in the segments in which the profile
\* has its higher speed), vehicle 2 starts SlowGap metres into the lap and
\* moves 1 m per step
SlowTable(p, track, race) ==
    LET slow == [seg \in DOMAIN p.profile |-> p.profile[seg] \div 2]
    IN MkSeq(LAMBDA i :
           LET t == (i - 1) \div 2
               v == ((i - 1) % 2) + 1
           IN [Time |-> t * GRID_MS, Track |-> track, Race_Number |-> race,
               Vehicle_ID |-> v,
               Laptrigger_lapdist_dls |->
                   IF v = 1 THEN (IF t = 0 THEN L3Lap ELSE Travelled(slow, t, 1))
                   ELSE SlowGap + t,
               Sector_ID |-> SectorAt(p.sector, t)],
           2 * L3Steps)

\* the second race of the table: none, the same race driven again (R2),
\* the same race at another track, a race with one lap distance missing,
\* a race on a track shorter than MIN_TRACK_LENGTH, a slow race
SecondRaces == {"none", "copy", "sonoma", "short", "low", "slow"}

L3Table(p) ==
    IF p.cross # <<>> THEN CrossingTable(p, "Barber", "R1")
    ELSE
    RaceTable(p, "Barber", "R1", L3Base, 0)
    \o (CASE p.second = "copy" -> RaceTable(p, "Barber", "R2", L3Base, 0)
          [] p.second = "sonoma" -> RaceTable(p, "Sonoma", "R1", L3Base, 0)
          [] p.second = "short" -> RaceTable(p, "Barber", "R2", L3Base, 1)
          [] p.second = "low" -> RaceTable(p, "Barber", "R2", 0, 0)
          [] p.second = "slow" -> SlowTable(p, "Barber", "R2")
          [] OTHER -> <<>>)

\* event_detection.py 48: the groups in groupby order
L3Races(p) ==
    CASE p.second = "none" -> << <<"Barber", "R1">> >>
      [] p.second = "sonoma" -> << <<"Barber", "R1">>, <<"Sonoma", "R1">> >>
      [] OTHER -> << <<"Barber", "R1">>, <<"Barber", "R2">> >>

L3Inputs ==
    [gap : L3Gaps, profile : [1..NumSegs -> V1Speeds],
     sector : SectorPatterns, second : SecondRaces, cross : {<<>>}]
    \cup [gap : {0}, profile : {<<>>}, sector : {1, 3}, second : {"none"},
          cross : L3Crossings]

InitL3 ==
    /\ l3_in \in L3Inputs
    /\ l3_next = 1
    /\ l3_all = <<>>
    /\ l3_files = [rc \in Range(L3Races(l3_in)) |-> NoFile]
    /\ l3_out = "pending"
    /\ DrvIdle
    /\ L5Idle
    /\ L2Idle
    /\ L4Idle
    /\ L1Idle

\* event_detection.py 48-154: the loop body for the next race
L3_process_race ==
    /\ l3_out = "pending"
    /\ l3_next \in DOMAIN L3Races(l3_in)
    /\ LET rc == L3Races(l3_in)[l3_next] IN
       \E confirmed_events_race \in detect_race(L3Table(l3_in), rc) :
          /\ l3_files' = IF confirmed_events_race # <<>>
                         THEN [l3_files EXCEPT ![rc] = confirmed_events_race]
                         ELSE l3_files
          /\ l3_all' = l3_all \o confirmed_events_race
    /\ l3_next' = l3_next + 1
    /\ UNCHANGED <<l3_in, l3_out, drvVars, l5Vars, l1Vars, l2Vars, l4Vars>>

\* event_detection.py 156-157
L3_return ==
    /\ l3_out = "pending"
    /\ l3_next > Len(L3Races(l3_in))
    /\ l3_in.sector # 0
    /\ l3_out' = l3_all
    /\ UNCHANGED <<l3_in, l3_next, l3_all, l3_files, drvVars, l5Vars, l1Vars,
                   l2Vars, l4Vars>>

NextL3 == L3_process_race \/ L3_return

SpecL3 == InitL3 /\ [][NextL3]_vars

-----------------------------------------------------------------------------
(* L4: run_causal_analysis                                                 *)
(* Brake pressure is in bar, throttle in percent, lap distance in metres,  *)
(* time in milliseconds; a delta is a float64 value.                       *)

\* BRAKE_START_THRESHOLD = 0.5 bar, in tenths of a bar
BRAKE_START_THRESHOLD_10 == 5
\* causal_analysis.py 58-59: half width of the analysis window (1.5 s)
ANALYSIS_WINDOW_MS == 1500
\* causal_analysis.py 111, 115: ath >= 95 is full throttle
THROTTLE_HIGH == 95

\* the value of a key that an event dictionary does not hold
NoKey == "<no key>"
NoText == <<>>

Reverse(s) == [i \in 1..Len(s) |-> s[Len(s) + 1 - i]]

RECURSIVE SumRange(_, _, _, _)
\* the sum of the values rows[lo][col], ..., rows[hi][col] that are not
\* NaN, by halving
SumRange(rows, col, lo, hi) ==
    IF lo > hi THEN 0
    ELSE IF lo = hi THEN (IF rows[lo][col] = NaN THEN 0 ELSE rows[lo][col])
    ELSE LET mid == (lo + hi) \div 2
         IN SumRange(rows, col, lo, mid) + SumRange(rows, col, mid + 1, hi)

\* Series.sum(): NaN is skipped
ColSum(rows, col) == SumRange(rows, col, 1, Len(rows))

\* Series.count(): the number of values that are not NaN
ColCount(rows, col) == Cardinality({i \in DOMAIN rows : rows[i][col] # NaN})

\* causal_analysis.py 16-27
find_brake_start_dist(df_car, event_timestamp) ==
    LET pre_event_data ==
            Reverse(SelectSeq(df_car, LAMBDA r : r.Time < event_timestamp))
        brake_start_rows ==
            SelectSeq(pre_event_data,
                      LAMBDA r : /\ r.pbrake_f # NaN
                                 /\ 10 * r.pbrake_f > BRAKE_START_THRESHOLD_10)
    IN IF brake_start_rows # <<>>
       THEN brake_start_rows[Len(brake_start_rows)].Laptrigger_lapdist_dls
       ELSE NaN

\* causal_analysis.py 52
IsInvalidSector(sector_id) ==
    sector_id = NoText \/ ~startswith(sector_id, S_)

\* causal_analysis.py 63-71: rows of one vehicle in the event's sector,
\* sliced to the window (both ends included)
WindowSlice(df, vehicle, sector_id, window_start, window_end) ==
    SelectSeq(df.rows,
              LAMBDA r : /\ Str(r.Vehicle_ID) = vehicle
                         /\ r.Sector_ID = sector_id
                         /\ r.Time >= window_start
                         /\ r.Time <= window_end)

\* ---- float64 arithmetic ----
\* A natural number of any size is the sequence of its base-2^14 digits,
\* lowest first and without leading zeros; a float64 value is
\* [nan, neg, m, e]: NaN when nan is set, else (-1)^neg * m * 2^e with m
\* odd and below 2^53, zero being [FALSE, FALSE, <<>>, 0]. Every operation
\* rounds its exact result to nearest, ties to even, as IEEE 754 binary64
\* does, NaN operands give NaN and every comparison with NaN is false
\* (the values of the tables stay far from overflow and underflow).
Limb == 2 ^ 14

\* F(x) with the argument x evaluated once
Once(F(_), x) == CHOOSE r \in {F(v) : v \in {x}} : TRUE

Rest(a) == IF a = <<>> THEN <<>> ELSE Tail(a)

LimbAt(a, i) == IF i <= Len(a) THEN a[i] ELSE 0

RECURSIVE NatNorm(_)
NatNorm(a) ==
    IF a # <<>> /\ a[Len(a)] = 0 THEN NatNorm(SubSeq(a, 1, Len(a) - 1)) ELSE a

RECURSIVE NatOf(_)
NatOf(k) == IF k = 0 THEN <<>> ELSE <<k % Limb>> \o NatOf(k \div Limb)

RECURSIVE NatToInt(_)
NatToInt(a) == IF a = <<>> THEN 0 ELSE a[1] + Limb * NatToInt(Tail(a))

RECURSIVE NatAddC(_, _, _)
NatAddC(a, b, carry) ==
    IF a = <<>> /\ b = <<>> THEN NatOf(carry)
    ELSE LET s == LimbAt(a, 1) + LimbAt(b, 1) + carry
         IN <<s % Limb>> \o NatAddC(Rest(a), Rest(b), s \div Limb)

NatAdd(a, b) == NatAddC(a, b, 0)

RECURSIVE NatSubB(_, _, _)
NatSubB(a, b, borrow) ==
    IF a = <<>> THEN <<>>
    ELSE LET d == a[1] - LimbAt(b, 1) - borrow
         IN <<(d + Limb) % Limb>>
                \o NatSubB(Tail(a), Rest(b), IF d < 0 THEN 1 ELSE 0)

\* a - b for a >= b
NatSub(a, b) == NatNorm(NatSubB(a, b, 0))

RECURSIVE NatCmpAt(_, _, _)
NatCmpAt(a, b, i) ==
    IF i = 0 THEN 0
    ELSE IF a[i] > b[i] THEN 1
    ELSE IF a[i] < b[i] THEN -1
    ELSE NatCmpAt(a, b, i - 1)

\* 1, 0 or -1 as a is above, equal to or below b
NatCmp(a, b) ==
    IF Len(a) > Len(b) THEN 1
    ELSE IF Len(a) < Len(b) THEN -1
    ELSE NatCmpAt(a, b, Len(a))

RECURSIVE NatMulC(_, _, _)
NatMulC(a, k, carry) ==
    IF a = <<>> THEN NatOf(carry)
    ELSE LET p == a[1] * k + carry
         IN <<p % Limb>> \o NatMulC(Tail(a), k, p \div Limb)

\* a * k for 0 <= k <= 2^16
NatMulSmall(a, k) == NatNorm(NatMulC(a, k, 0))

\* a * Limb^n
NatShiftLimbs(a, n) ==
    IF a = <<>> THEN <<>> ELSE [i \in 1..n |-> 0] \o a

RECURSIVE NatMul(_, _)
NatMul(a, b) ==
    IF b = <<>> THEN <<>>
    ELSE NatAdd(NatMulSmall(a, b[1]), NatShiftLimbs(NatMul(a, Tail(b)), 1))

RECURSIVE NatDivAt(_, _, _, _)
NatDivAt(a, n, i, r) ==
    IF i = 0 THEN <<<<>>, r>>
    ELSE LET cur == r * Limb + a[i]
             low == NatDivAt(a, n, i - 1, cur % n)
         IN <<Append(low[1], cur \div n), low[2]>>

\* <<a div n, a mod n>> for 0 < n <= 2^16
NatDivSmall(a, n) ==
    LET d == NatDivAt(a, n, Len(a), 0) IN <<NatNorm(d[1]), d[2]>>

\* a * 2^t
NatShl(a, t) == NatShiftLimbs(NatMulSmall(a, 2 ^ (t % 14)), t \div 14)

\* a div 2^t
NatShr(a, t) ==
    IF t \div 14 >= Len(a) THEN <<>>
    ELSE NatDivSmall(SubSeq(a, t \div 14 + 1, Len(a)), 2 ^ (t % 14))[1]

\* the number of binary digits of a
NatBitLen(a) ==
    IF a = <<>> THEN 0
    ELSE 14 * (Len(a) - 1)
           + (CHOOSE n \in 1..14 : 2 ^ (n - 1) <= a[Len(a)] /\ a[Len(a)] < 2 ^ n)

NatOdd(a) == a # <<>> /\ a[1] % 2 = 1

\* a / 2^t rounded to an integer, ties to even
NatRoundShr(a, t) ==
    LET Nearest(q, c) ==
            IF c > 0 \/ (c = 0 /\ NatOdd(q)) THEN NatAdd(q, <<1>>) ELSE q
        Rounded(q) ==
            Once(LAMBDA c : Nearest(q, c),
                 NatCmp(NatShl(NatSub(a, NatShl(q, t)), 1), NatShl(<<1>>, t)))
    IN IF t <= 0 THEN NatShl(a, -t)
       ELSE Once(LAMBDA q : Rounded(q), NatShr(a, t))

RECURSIVE OddForm(_, _)
\* m * 2^e with the factors of two moved from m to e
OddForm(m, e) ==
    IF m = <<>> THEN <<m, 0>>
    ELSE IF m[1] = 0 THEN OddForm(Tail(m), e + 14)
    ELSE IF m[1] % 2 = 0 THEN OddForm(NatShr(m, 1), e + 1)
    ELSE <<m, e>>

\* the float64 nearest to (-1)^neg * m * 2^e
Float(neg, m, e) ==
    LET Rounded(v) == Once(LAMBDA o : [nan |-> FALSE,
                                       neg |-> neg /\ o[1] # <<>>,
                                       m |-> o[1], e |-> o[2]],
                           OddForm(NatRoundShr(v[1], v[2]), e + v[2]))
    IN Once(LAMBDA mant :
                Rounded(<<mant, IF NatBitLen(mant) > 53
                                THEN NatBitLen(mant) - 53 ELSE 0>>),
            m)

\* float('nan')
FNaN == [nan |-> TRUE, neg |-> FALSE, m |-> <<>>, e |-> 0]

\* float(k) of an integer
FromInt(k) == Once(LAMBDA v : Float(v < 0, NatOf(Abs(v)), 0), k)

\* the float quotient p / q of two integers, 0 < q <= 2^16: the quotient
\* is carried to 84 binary places and a last digit records a remainder
FDiv(p, q) ==
    LET Quotient(neg, d) ==
            Float(neg, NatAdd(NatShl(d[1], 1),
                              IF d[2] = 0 THEN <<>> ELSE <<1>>), -85)
    IN Once(LAMBDA v :
                Once(LAMBDA d : Quotient(v[1] < 0, d),
                     NatDivSmall(NatShiftLimbs(NatOf(Abs(v[1])), 6), v[2])),
            <<p, q>>)

FNeg(a) == Once(LAMBDA v : [v EXCEPT !.neg = ~v.neg /\ v.m # <<>>], a)

FAbs(a) == [a EXCEPT !.neg = FALSE]

\* the operands a and b as multiples of 2^e, e the lower exponent:
\* <<mantissa of a, mantissa of b, e>>
Aligned(a, b) ==
    Once(LAMBDA e : <<NatShl(a.m, a.e - e), NatShl(b.m, b.e - e), e>>,
         IF a.e < b.e THEN a.e ELSE b.e)

FAdd(a, b) ==
    LET Sum(x, y, al) ==
            IF x.neg = y.neg THEN Float(x.neg, NatAdd(al[1], al[2]), al[3])
            ELSE IF NatCmp(al[1], al[2]) >= 0
            THEN Float(x.neg, NatSub(al[1], al[2]), al[3])
            ELSE Float(y.neg, NatSub(al[2], al[1]), al[3])
    IN Once(LAMBDA v : IF v[1].nan \/ v[2].nan THEN FNaN
                       ELSE Once(LAMBDA al : Sum(v[1], v[2], al),
                                 Aligned(v[1], v[2])),
            <<a, b>>)

FSub(a, b) == FAdd(a, FNeg(b))

FMul(a, b) ==
    Once(LAMBDA v : IF v[1].nan \/ v[2].nan THEN FNaN
                    ELSE Float(v[1].neg # v[2].neg, NatMul(v[1].m, v[2].m),
                               v[1].e + v[2].e),
         <<a, b>>)

\* a > b, false when a or b is NaN
FGreater(a, b) ==
    LET Above(x, y, c) == IF x.neg # y.neg THEN y.neg
                          ELSE IF x.neg THEN c < 0 ELSE c > 0
    IN Once(LAMBDA v :
                /\ ~v[1].nan /\ ~v[2].nan
                /\ Once(LAMBDA al : Above(v[1], v[2], NatCmp(al[1], al[2])),
                        Aligned(v[1], v[2])),
            <<a, b>>)

\* Timedelta.total_seconds() of a span of ms milliseconds:
\* days * 24 * 3600 + seconds + microseconds / 1_000_000
total_seconds(ms) == FAdd(FromInt(ms \div 1000), FDiv(ms % 1000, 1000))

\* Series.max(): the largest value that is not NaN, NaN when the column
\* holds no value
ColMax(rows, col) ==
    LET present == {rows[i][col] : i \in DOMAIN rows} \ {NaN}
    IN IF present = {} THEN FNaN ELSE FromInt(MaxOf(present))

\* Series.mean(): the sum of the values that are not NaN over their
\* number, NaN when the column holds no value
ColMean(rows, col) ==
    IF ColCount(rows, col) = 0 THEN FNaN
    ELSE FDiv(ColSum(rows, col), ColCount(rows, col))

\* causal_analysis.py 83-99
BrakeDeltas(df, winner_data, loser_data, event_time) ==
    IF "pbrake_f" \in df.columns
    THEN LET winner_peak_pressure == ColMax(winner_data, "pbrake_f")
             loser_peak_pressure == ColMax(loser_data, "pbrake_f")
             winner_brake_dist == find_brake_start_dist(winner_data, event_time)
             loser_brake_dist == find_brake_start_dist(loser_data, event_time)
         IN [Brake_Pressure_Delta |->
                 FSub(winner_peak_pressure, loser_peak_pressure),
             Brake_Timing_Delta |->
                 IF winner_brake_dist # NaN /\ loser_brake_dist # NaN
                 THEN FSub(FromInt(loser_brake_dist),
                           FromInt(winner_brake_dist))
                 ELSE FromInt(0)]
    ELSE [Brake_Pressure_Delta |-> FromInt(0),
          Brake_Timing_Delta |-> FromInt(0)]

\* causal_analysis.py 102-126; the times to full throttle are float
\* seconds, the means float quotients
ThrottleDelta(df, winner_data, loser_data, analysis_window_start) ==
    IF "ath" \in df.columns
    THEN LET winner_throttle_high ==
                 SelectSeq(winner_data,
                           LAMBDA r : r.ath # NaN /\ r.ath >= THROTTLE_HIGH)
             loser_throttle_high ==
                 SelectSeq(loser_data,
                           LAMBDA r : r.ath # NaN /\ r.ath >= THROTTLE_HIGH)
         IN IF winner_throttle_high # <<>> /\ loser_throttle_high # <<>>
            THEN LET winner_time_to_max ==
                         total_seconds(winner_throttle_high[1].Time
                                         - analysis_window_start)
                     loser_time_to_max ==
                         total_seconds(loser_throttle_high[1].Time
                                         - analysis_window_start)
                 IN FSub(loser_time_to_max, winner_time_to_max)
            ELSE FSub(ColMean(winner_data, "ath"), ColMean(loser_data, "ath"))
    ELSE FromInt(0)

\* Series.mode(): the values that occur most often, ascending, NaN dropped
GearModes(rows) ==
    LET present == {i \in DOMAIN rows : rows[i].Gear # NaN}
        count(v) == Cardinality({i \in present : rows[i].Gear = v})
        vals == {rows[i].Gear : i \in present}
    IN {v \in vals : \A w \in vals : count(w) <= count(v)}

\* causal_analysis.py 130-131: .mode().iloc[0] raises IndexError when the
\* Gear column of the slice holds no value
GearRaises(df, winner_data, loser_data) ==
    /\ "Gear" \in df.columns
    /\ GearModes(winner_data) = {} \/ GearModes(loser_data) = {}

\* causal_analysis.py 129-134
GearDelta(df, winner_data, loser_data) ==
    IF "Gear" \in df.columns
    THEN FSub(FromInt(MinOf(GearModes(winner_data))),
              FromInt(MinOf(GearModes(loser_data))))
    ELSE FromInt(0)

\* the keys of the magnitudes dictionary, in insertion order
ReasonOrder == <<"Brake_Pressure_Delta", "Brake_Timing_Delta",
                 "Throttle_Commit_Delta", "Gear_Delta">>

\* causal_analysis.py 141-144: the factors 10, 0.5, 0.1 and 5; the float
\* literal 0.1 is the float64 nearest to one tenth
Normalization ==
    [Brake_Pressure_Delta |-> FromInt(10), Brake_Timing_Delta |-> FDiv(1, 2),
     Throttle_Commit_Delta |-> FDiv(1, 10), Gear_Delta |-> FromInt(5)]

\* abs(delta * factor)
Magnitude(delta, factor) == FAbs(FMul(delta, factor))

\* causal_analysis.py 140-145: the values of the magnitudes dictionary,
\* in insertion order
Magnitudes(deltas) ==
    MkSeq(LAMBDA k : Magnitude(deltas[ReasonOrder[k]],
                               Normalization[ReasonOrder[k]]),
          Len(ReasonOrder))

RECURSIVE MaxByKey(_, _, _)
\* max(iterable, key=...): the builtin keeps the first item and replaces
\* it by a later item only when that item's key compares greater, which
\* a NaN key never does and which no key does against a NaN key
MaxByKey(mag, i, best) ==
    IF i > Len(mag) THEN best
    ELSE MaxByKey(mag, i + 1, IF FGreater(mag[i], mag[best]) THEN i ELSE best)

\* causal_analysis.py 140-147: max(magnitudes, key=magnitudes.get) over
\* the keys in insertion order
PrimaryReason(deltas) ==
    ReasonOrder[Once(LAMBDA mag : MaxByKey(mag, 2, 1), Magnitudes(deltas))]

\* f"{value:.2f}": the binary value of the float rounded to hundredths,
\* half to even; a NaN is written nan
Format2f(value) ==
    LET Text(neg, q) == (IF neg THEN <<"-">> ELSE <<>>)
                            \o Str(q \div 100) \o <<".">> \o zfill(Str(q % 100), 2)
    IN Once(LAMBDA v :
                IF v.nan THEN <<"n", "a", "n">>
                ELSE Once(LAMBDA q : Text(v.neg, q),
                          NatToInt(NatRoundShr(NatMulSmall(v.m, 100), -v.e))),
            value)

\* causal_analysis.py 44-161: one iteration of the loop over event_list;
\* raised = TRUE when the iteration ends in an exception
analyze_event(df, event) ==
    LET winner_id == event.Winner_ID
        loser_id == event.Loser_ID
        event_time == event.Timestamp
        sector_id == event.Sector_ID
        analysis_window_start == event_time - ANALYSIS_WINDOW_MS
        analysis_window_end == event_time + ANALYSIS_WINDOW_MS
        winner_data == WindowSlice(df, winner_id, sector_id,
                                   analysis_window_start, analysis_window_end)
        loser_data == WindowSlice(df, loser_id, sector_id,
                                  analysis_window_start, analysis_window_end)
    IN IF IsInvalidSector(sector_id)
       THEN [raised |-> FALSE,
             event |-> [event EXCEPT !.Reason_Code = "Invalid_Sector"]]
       ELSE IF winner_data = <<>> \/ loser_data = <<>>
       THEN [raised |-> FALSE,
             event |-> [event EXCEPT !.Reason_Code = "Data_Missing"]]
       ELSE IF GearRaises(df, winner_data, loser_data)
       THEN [raised |-> TRUE, event |-> event]
       ELSE
         LET brake == BrakeDeltas(df, winner_data, loser_data, event_time)
             Tagged(primary_reason, Reason_Value) ==
                 [raised |-> FALSE,
                  event |->
                    [event EXCEPT
                       !.Reason_Code = primary_reason,
                       !.Reason_Value = Reason_Value,
                       !.LLM_Context_Input =
                           <<event.Sector_ID, primary_reason,
                             Reason_Value, "Overtake">>]]
             Result(deltas) ==
                 Once(LAMBDA primary_reason :
                          Once(LAMBDA Reason_Value :
                                   Tagged(primary_reason, Reason_Value),
                               Format2f(deltas[primary_reason])),
                      PrimaryReason(deltas))
         IN Once(LAMBDA deltas : Result(deltas),
                 [Brake_Pressure_Delta |-> brake.Brake_Pressure_Delta,
                  Brake_Timing_Delta |-> brake.Brake_Timing_Delta,
                  Throttle_Commit_Delta |->
                      ThrottleDelta(df, winner_data, loser_data,
                                    analysis_window_start),
                  Gear_Delta |-> GearDelta(df, winner_data, loser_data)])

\* the text of a float NaN in a record of DataFrame.to_dict('records')
NaNText == <<"N", "a", "N">>

\* causal_analysis.py 166-169: the records of one (track, race) group of
\* pd.DataFrame(updated_events); a key that some event of the list holds
\* and this event does not hold is NaN in its record
RaceRecords(updated_events, rc) ==
    LET has_value == \E i \in DOMAIN updated_events :
                        updated_events[i].Reason_Value # NoText
        record(e) ==
            IF has_value /\ e.Reason_Value = NoText
            THEN [e EXCEPT !.Reason_Value = NaNText,
                           !.LLM_Context_Input = <<NaNText>>]
            ELSE e
        group == SelectSeq(updated_events,
                           LAMBDA e : <<e.Track, e.Race_Number>> = rc)
    IN [i \in DOMAIN group |-> record(group[i])]

\* causal_analysis.py 164-169
RewriteEventFiles(files, updated_events) ==
    [rc \in DOMAIN files |->
        IF \E i \in DOMAIN updated_events :
              <<updated_events[i].Track, updated_events[i].Race_Number>> = rc
        THEN RaceRecords(updated_events, rc)
        ELSE files[rc]]

(* ---- inputs of SpecL4: two vehicles on one track, a row per vehicle ---- *)
(* and 50 ms step; steps 0..29 lie in S_001, 30..39 on the straight, the   *)
(* rest in S_002; the channels repeat every 40 steps.                      *)

L4Steps == 70

L4Never == 99

L4SectorOfStep(k) ==
    IF k < 30 THEN <<"S", "_", "0", "0", "1">>
    ELSE IF k < 40 THEN STRAIGHT
    ELSE <<"S", "_", "0", "0", "2">>

\* the row of vehicle v at step k under the parameters p
L4Row(p, v, k) ==
    LET ph == k % 40
        bs == IF v = 1 THEN p.bs1 ELSE 10
        peak == IF v = 1 THEN p.bp1 ELSE p.bp2
        th == IF v = 1 THEN p.th1 ELSE p.th2
        g == IF v = 1 THEN p.g1 ELSE p.g2
    IN [Time |-> GRID_MS * k,
        Vehicle_ID |-> v,
        Sector_ID |-> L4SectorOfStep(k),
        pbrake_f |-> IF peak = NaN THEN NaN
                     ELSE IF ph >= bs /\ ph < bs + 3 THEN peak ELSE 0,
        ath |-> IF th = NaN THEN NaN
                ELSE IF ph >= th THEN 100 ELSE IF v = 1 THEN 50 ELSE 0,
        Gear |-> IF g = NaN THEN NaN ELSE IF ph % 4 = 0 THEN g + 1 ELSE g,
        Laptrigger_lapdist_dls |-> 10 * (v - 1) + 4 * k]

L4Table(p) ==
    LET row(i) == L4Row(p, ((i - 1) % 2) + 1, (i - 1) \div 2)
    IN [columns |-> {"Vehicle_ID", "Sector_ID", "Laptrigger_lapdist_dls"}
                       \cup p.cols,
        rows |-> MkSeq(row, 2 * L4Steps)]

L4Event(time, winner, loser, sector, race) ==
    [Timestamp |-> time, Winner_ID |-> winner, Loser_ID |-> loser,
     Sector_ID |-> sector, Track |-> "Barber", Race_Number |-> race,
     Lap_Number |-> 1,
     Critical_Event_ID |-> EventId(sector, 1, winner, loser),
     Reason_Code |-> NoKey, Reason_Value |-> NoText,
     LLM_Context_Input |-> <<>>]

L4EventLists ==
    LET s1 == <<"S", "_", "0", "0", "1">>
        s2 == <<"S", "_", "0", "0", "2">>
        e1 == L4Event(1000, <<"1">>, <<"2">>, s1, "R1")
        e2 == L4Event(3000, <<"2">>, <<"1">>, s2, "R2")
        e3 == L4Event(1750, <<"1">>, <<"2">>, STRAIGHT, "R1")
        e4 == L4Event(1000, <<"1">>, <<"3">>, s1, "R1")
        e5 == L4Event(0, <<"2">>, <<"1">>, s2, "R2")
    IN <<(<<>>), <<e1>>, <<e1, e2>>, <<e3, e1>>, <<e4, e2>>, <<e5, e3>>>>

L4Columns == {{"pbrake_f", "ath", "Gear"}, {"pbrake_f", "ath"},
              {"ath", "Gear"}, {"pbrake_f", "Gear"}}

\* the tables in which every channel that is present holds values for
\* both vehicles or the Gear of a vehicle is missing, and the tables in
\* which the brake pressure or the throttle of a vehicle is missing (the
\* column is there, the vehicle's rows hold NaN in it)
L4Inputs ==
    [bp1 : {0, 30}, bs1 : {5, 25}, th1 : {10, L4Never}, g1 : {2, 3, NaN},
     bp2 : {0, 30}, th2 : {12, L4Never}, g2 : {3, NaN},
     cols : L4Columns, evs : DOMAIN L4EventLists]
    \cup {p \in [bp1 : {0, 30, NaN}, bs1 : {5}, th1 : {10, L4Never, NaN},
                 g1 : {2, 3}, bp2 : {0, 30, NaN}, th2 : {12, L4Never, NaN},
                 g2 : {3}, cols : {{"pbrake_f", "ath", "Gear"}},
                 evs : DOMAIN L4EventLists] :
              NaN \in {p.bp1, p.bp2, p.th1, p.th2}}

L4RaceKeys == {<<"Barber", "R1">>, <<"Barber", "R2">>}

InitL4 ==
    /\ l4_in \in L4Inputs
    /\ l4_events = L4EventLists[l4_in.evs]
    /\ l4_next = 1
    /\ l4_files = [rc \in L4RaceKeys |-> NoFile]
    /\ l4_out = "pending"
    /\ DrvIdle
    /\ L5Idle
    /\ L2Idle
    /\ L3Idle
    /\ L1Idle

\* causal_analysis.py 38-40
L4_no_events ==
    /\ l4_out = "pending"
    /\ l4_events = <<>>
    /\ l4_out' = "returned"
    /\ UNCHANGED <<l4_in, l4_events, l4_next, l4_files, drvVars, l5Vars, l1Vars,
                   l2Vars, l3Vars>>

\* causal_analysis.py 44-161: the loop body for the next event; an
\* exception leaves the function with the remaining events untouched
L4_analyze_event ==
    /\ l4_out = "pending"
    /\ l4_next \in DOMAIN l4_events
    /\ LET result == analyze_event(L4Table(l4_in), l4_events[l4_next]) IN
          IF result.raised
          THEN /\ l4_out' = "raised"
               /\ UNCHANGED <<l4_events, l4_next>>
          ELSE /\ l4_events' = [l4_events EXCEPT ![l4_next] = result.event]
               /\ l4_next' = l4_next + 1
               /\ UNCHANGED l4_out
    /\ UNCHANGED <<l4_in, l4_files, drvVars, l5Vars, l1Vars, l2Vars, l3Vars>>

\* causal_analysis.py 163-169
L4_save ==
    /\ l4_out = "pending"
    /\ l4_events # <<>>
    /\ l4_next > Len(l4_events)
    /\ l4_files' = RewriteEventFiles(l4_files, l4_events)
    /\ l4_out' = "returned"
    /\ UNCHANGED <<l4_in, l4_events, l4_next, drvVars, l5Vars, l1Vars, l2Vars,
                   l3Vars>>

NextL4 == L4_no_events \/ L4_analyze_event \/ L4_save

SpecL4 == InitL4 /\ [][NextL4]_vars

-----------------------------------------------------------------------------
(* L1: ingest_and_synchronize_data                                         *)
(* Telemetry files are in wide form with the columns meta_time,            *)
(* vehicle_id and Speed; time is in milliseconds, a Speed value of the     *)
(* output is an exact fraction <<num, den>>.                               *)

\* rows that pd.read_csv hands over per chunk (CHUNK_SIZE, scaled down)
CHUNK_SIZE == 3

\* the vehicle_id of an output row that no raw row fills (NaN)
NoVehicle == "nan"

RECURSIVE GCD(_, _)
GCD(a, b) == IF b = 0 THEN a ELSE GCD(b, a % b)

\* the fraction n / d in lowest terms, d > 0
Frac(n, d) ==
    LET g == GCD(Abs(n), d) IN <<n \div g, d \div g>>

RECURSIVE split(_, _)
\* str.split(sep) for a one-character separator
split(s, sep) ==
    IF \A i \in DOMAIN s : s[i] # sep THEN <<s>>
    ELSE LET i == CHOOSE k \in DOMAIN s :
                     s[k] = sep /\ \A j \in 1..(k - 1) : s[j] # sep
         IN <<SubSeq(s, 1, i - 1)>> \o split(SubSeq(s, i + 1, Len(s)), sep)

\* ingestion_sync.py 51: the unpacking of the split into two names raises
\* ValueError unless the split has exactly two parts
FolderRaises(race_folder) ==
    /\ \E i \in DOMAIN race_folder : race_folder[i] = "_"
    /\ Len(split(race_folder, "_")) # 2

\* ingestion_sync.py 51
TrackAndRace(race_folder) ==
    IF \E i \in DOMAIN race_folder : race_folder[i] = "_"
    THEN split(race_folder, "_")
    ELSE <<(<<"U", "n", "k", "n", "o", "w", "n">>), <<"R", "0">>>>

\* pd.read_csv(chunksize=CHUNK_SIZE): the rows in runs of CHUNK_SIZE
Chunks(rows) ==
    LET n == (Len(rows) + CHUNK_SIZE - 1) \div CHUNK_SIZE
    IN [c \in 1..n |->
           SubSeq(rows, (c - 1) * CHUNK_SIZE + 1,
                  Min2(c * CHUNK_SIZE, Len(rows)))]

\* the label of the 50 ms bucket that holds time t
BucketOf(t) == (t \div GRID_MS) * GRID_MS

\* the index of chunk.resample('50ms'): every bucket from that of the
\* earliest row to that of the latest row
ResampledIndex(chunk) ==
    LET times == {chunk[i].Time : i \in DOMAIN chunk}
        first == BucketOf(MinOf(times))
        last == BucketOf(MaxOf(times))
    IN [k \in 1..(((last - first) \div GRID_MS) + 1) |->
           first + GRID_MS * (k - 1)]

\* .resample('50ms').mean(): the mean of a bucket's rows, NaN when empty
BucketMean(chunk, label) ==
    LET members == SelectSeq(chunk, LAMBDA r : BucketOf(r.Time) = label)
    IN IF members = <<>> THEN <<NaN, 1>>
       ELSE Frac(ColSum(members, "Speed"), Len(members))

\* .interpolate(method='linear', limit_direction='both') at position k of
\* the column of bucket means
Interpolated(means, k) ==
    IF means[k][1] # NaN THEN means[k]
    ELSE LET known == {j \in DOMAIN means : means[j][1] # NaN}
             before == {j \in known : j < k}
             after == {j \in known : j > k}
         IN IF before = {} /\ after = {} THEN means[k]
            ELSE IF before = {} THEN means[MinOf(after)]
            ELSE IF after = {} THEN means[MaxOf(before)]
            ELSE LET i == MaxOf(before)
                     j == MinOf(after)
                     a == means[i]
                     b == means[j]
                 IN \* a + (b - a) * (k - i) / (j - i)
                    Frac(a[1] * b[2] * (j - i)
                           + (b[1] * a[2] - a[1] * b[2]) * (k - i),
                         a[2] * b[2] * (j - i))

\* pandas takes the rows as they are when the index of the chunk already
\* has the 50 ms frequency (three or more rows, each 50 ms after the last)
EqualSampling(chunk) ==
    /\ Len(chunk) >= 3
    /\ \A i \in 2..Len(chunk) : chunk[i].Time - chunk[i - 1].Time = GRID_MS

\* chunk[preserve_cols].resample('50ms').ffill() otherwise reindexes with
\* method ffill, which raises ValueError on a repeated timestamp
ChunkRaises(chunk) ==
    /\ ~EqualSampling(chunk)
    /\ \E i, j \in DOMAIN chunk : i # j /\ chunk[i].Time = chunk[j].Time

\* ingestion_sync.py 240-243: the vehicle_id of the output row at label
Preserved(chunk, index, k) ==
    IF EqualSampling(chunk) THEN chunk[k].vehicle_id
    ELSE LET upTo == {i \in DOMAIN chunk : chunk[i].Time <= index[k]}
         IN IF upTo = {} THEN NoVehicle ELSE chunk[MaxOf(upTo)].vehicle_id

\* ingestion_sync.py 218-247: the resampled chunk
ChunkSynced(chunk) ==
    LET index == ResampledIndex(chunk)
        means == [k \in DOMAIN index |-> BucketMean(chunk, index[k])]
    IN [k \in DOMAIN index |->
           [Time |-> index[k],
            Speed |-> Interpolated(means, k),
            vehicle_id |-> Preserved(chunk, index, k)]]

\* ingestion_sync.py 255: pd.concat(chunk_list)
ConcatChunks(chunks) ==
    SeqConcat([c \in DOMAIN chunks |-> ChunkSynced(chunks[c])],
              [c \in DOMAIN chunks |-> c])

\* ingestion_sync.py 276-288: the context columns of the file's rows
Stamped(df_synced, race_folder) ==
    LET vehicle_id == df_synced[1].vehicle_id
        names == TrackAndRace(race_folder)
    IN [k \in DOMAIN df_synced |->
           [Time |-> df_synced[k].Time,
            Speed |-> df_synced[k].Speed,
            vehicle_id |-> df_synced[k].vehicle_id,
            Vehicle_ID |-> vehicle_id,
            Track |-> names[1],
            Race_Number |-> names[2]]]

\* ingestion_sync.py 56-310: the rows one file adds to all_races_list, or
\* <<>> when the processing of the file fails and the file is skipped
FileRows(file) ==
    LET chunks == Chunks(file.rows)
    IN IF file.rows = <<>> \/ \E c \in DOMAIN chunks : ChunkRaises(chunks[c])
       THEN <<>>
       ELSE Stamped(ConcatChunks(chunks), file.folder)

RECURSIVE Perms(_)
\* the orders in which the rows of the index set S can stand
Perms(S) ==
    IF S = {} THEN {<<>>}
    ELSE UNION {{<<i>> \o q : q \in Perms(S \ {i})} : i \in S}

RECURSIVE SortedOrders(_, _)
\* master_timeline.sort_index(): the rows by ascending Time; the order
\* among rows of equal Time is not fixed by the sort
SortedOrders(rows, left) ==
    IF left = {} THEN {<<>>}
    ELSE LET t == MinOf({rows[i].Time : i \in left})
             now == {i \in left : rows[i].Time = t}
         IN {p \o q : p \in Perms(now), q \in SortedOrders(rows, left \ now)}

\* ingestion_sync.py 313-363
MasterTimelines(all_races_list) ==
    LET master_timeline ==
            SeqConcat(all_races_list, [i \in DOMAIN all_races_list |-> i])
    IN {[k \in DOMAIN order |-> master_timeline[order[k]]] :
           order \in SortedOrders(master_timeline, DOMAIN master_timeline)}

(* ---- inputs of SpecL1: up to two telemetry files ---- *)

L1MaxFiles == 2

\* the raw timestamps of a file, ascending
L1Traces ==
    <<(<<0, 50, 100, 150>>),      \* on the grid, cut into two chunks
      <<0, 20, 100, 120>>,        \* the cut falls inside the bucket of 100
      <<0, 50, 100, 250>>,        \* the second chunk starts 150 ms later
      <<10, 60, 110>>,            \* 50 ms apart, off the grid
      <<10, 70>>,                 \* off the grid
      <<0, 0, 50>>,               \* a repeated timestamp
      <<100, 150, 200>>,
      <<0, 1100>> >>              \* a pause of more than a second

L1Folders ==
    {<<"B", "_", "R", "1">>, <<"B", "_", "R", "2">>, <<"B", "R", "1">>,
     <<"B", "_", "R", "_", "1">>}

L1Vehicles == {"GR86-A", "GR86-B"}

L1RawRows(trace, vehicle) ==
    [i \in DOMAIN L1Traces[trace] |->
        [Time |-> L1Traces[trace][i],
         vehicle_id |-> vehicle,
         Speed |-> (L1Traces[trace][i] \div 10) + 3 * i
                      + (IF vehicle = "GR86-A" THEN 0 ELSE 40)]]

\* the raw samples <<time, vehicle>> of a file that holds two vehicles:
\* with timestamps of their own, and with shared timestamps
L1PairTraces ==
    <<(<<(<<0, "GR86-A">>), <<10, "GR86-B">>, <<50, "GR86-A">>,
         <<60, "GR86-B">>, <<100, "GR86-A">>, <<110, "GR86-B">>>>),
      <<(<<0, "GR86-A">>), <<0, "GR86-B">>, <<50, "GR86-A">>,
        <<50, "GR86-B">>>> >>

L1PairRows(pair) ==
    [i \in DOMAIN L1PairTraces[pair] |->
        [Time |-> L1PairTraces[pair][i][1],
         vehicle_id |-> L1PairTraces[pair][i][2],
         Speed |-> (L1PairTraces[pair][i][1] \div 10)
                      + (IF L1PairTraces[pair][i][2] = "GR86-A" THEN 0 ELSE 40)]]

\* the files the first telemetry file is drawn from
L1Files ==
    {[folder |-> f, trace |-> t, rows |-> L1RawRows(t, v)] :
        f \in L1Folders, t \in DOMAIN L1Traces, v \in L1Vehicles}
    \cup {[folder |-> <<"B", "_", "R", "1">>, trace |-> Len(L1Traces) + pair,
           rows |-> L1PairRows(pair)] : pair \in DOMAIN L1PairTraces}

\* the files every further telemetry file is drawn from
L1MoreFiles ==
    {file \in L1Files :
        /\ file.folder \in {<<"B", "_", "R", "1">>, <<"B", "_", "R", "_", "1">>}
        /\ file.trace \in {6, 7}}

L1Inputs ==
    {<<>>} \cup
    {<<first>> \o more :
        first \in L1Files,
        more \in UNION {[1..n -> L1MoreFiles] : n \in 0..(L1MaxFiles - 1)}}

InitL1 ==
    /\ l1_in \in L1Inputs
    /\ l1_next = 1
    /\ l1_list = <<>>
    /\ l1_out = L1Result("pending", <<>>)
    /\ DrvIdle
    /\ L5Idle
    /\ L2Idle
    /\ L3Idle
    /\ L4Idle

\* ingestion_sync.py 42-44
L1_no_files ==
    /\ l1_out.status = "pending"
    /\ l1_next = 1
    /\ l1_in = <<>>
    /\ l1_out' = L1Result("None", <<>>)
    /\ UNCHANGED <<l1_in, l1_next, l1_list, drvVars, l5Vars, l2Vars, l3Vars, l4Vars>>

\* ingestion_sync.py 48-310: the loop body for the next telemetry file
L1_process_file ==
    /\ l1_out.status = "pending"
    /\ l1_next \in DOMAIN l1_in
    /\ LET file == l1_in[l1_next] IN
          IF FolderRaises(file.folder)
          THEN /\ l1_out' = L1Result("raised", <<>>)
               /\ UNCHANGED <<l1_next, l1_list>>
          ELSE /\ l1_list' = IF FileRows(file) = <<>> THEN l1_list
                             ELSE Append(l1_list, FileRows(file))
               /\ l1_next' = l1_next + 1
               /\ UNCHANGED l1_out
    /\ UNCHANGED <<l1_in, drvVars, l5Vars, l2Vars, l3Vars, l4Vars>>

\* ingestion_sync.py 313-363
L1_return ==
    /\ l1_out.status = "pending"
    /\ l1_in # <<>>
    /\ l1_next > Len(l1_in)
    /\ IF l1_list = <<>>
       THEN l1_out' = L1Result("None", <<>>)
       ELSE \E master_timeline \in MasterTimelines(l1_list) :
               l1_out' = L1Result("returned", master_timeline)
    /\ UNCHANGED <<l1_in, l1_next, l1_list, drvVars, l5Vars, l2Vars, l3Vars, l4Vars>>

NextL1 == L1_no_files \/ L1_process_file \/ L1_return

SpecL1 == InitL1 /\ [][NextL1]_vars

-----------------------------------------------------------------------------
(* L5: consolidate_event_data                                              *)
(* A file is a record [present, events]; a file that does not exist has    *)
(* present = FALSE and no events.                                          *)

File(present, events) == [present |-> present, events |-> events]

NoEventFile == File(FALSE, <<>>)

\* a grouping that files every event under every track
events_by_track_Ungrouped(all_events) ==
    [track \in {all_events[i].Track : i \in DOMAIN all_events} |-> all_events]

\* data_export.py 176-181: the events grouped by their Track, each list in
\* the order in which the events were read
events_by_track(all_events) ==
    [track \in {all_events[i].Track : i \in DOMAIN all_events} |->
        SelectSeq(all_events, LAMBDA event : event.Track = track)]

\* data_export.py 185-189: the content of all_events.json
events_master(all_events) ==
    [present |-> TRUE,
     total_events |-> Len(all_events),
     events_by_track |->
         [track \in DOMAIN events_by_track(all_events) |->
             Len(events_by_track(all_events)[track])],
     events |-> all_events]

\* data_export.py 165-173: the lists of the *_Events.json files, in the
\* order in which glob yields the files
AllEvents(files, order) ==
    SeqConcat([rc \in DOMAIN files |-> files[rc].events], order)

\* data_export.py 183-199: the events directory after the call; nothing is
\* written when no event was read
ConsolidatedDir(dir, files, order) ==
    LET all_events == AllEvents(files, order)
        by_track == events_by_track(all_events)
    IN IF all_events = <<>> THEN dir
       ELSE [master |-> events_master(all_events),
             tracks |-> [track \in DOMAIN dir.tracks |->
                            IF track \in DOMAIN by_track
                            THEN File(TRUE, by_track[track])
                            ELSE dir.tracks[track]]]

\* ---- inputs of SpecL5 ----

L5RaceKeys == {<<"Barber", "R1">>, <<"Barber", "R2">>, <<"Sonoma", "R1">>}

L5Tracks == {"Barber", "Sonoma"}

L5Event(rc, id) ==
    [Track |-> rc[1], Race_Number |-> rc[2], Critical_Event_ID |-> id]

\* a race file does not exist, or holds one or two events of its race
L5FileChoices(rc) ==
    {NoEventFile,
     File(TRUE, <<L5Event(rc, "S_001_L1_WIN1_LOS2")>>),
     File(TRUE, <<L5Event(rc, "S_001_L1_WIN1_LOS2"),
                  L5Event(rc, "S_002_L1_WIN2_LOS1")>>)}

\* the states of the event_metadata directory
L5Dirs ==
    {files \in [L5RaceKeys -> UNION {L5FileChoices(rc) : rc \in L5RaceKeys}] :
        \A rc \in L5RaceKeys : files[rc] \in L5FileChoices(rc)}

\* the orders in which glob can yield the files that exist
GlobOrders(files) == Perms({rc \in DOMAIN files : files[rc].present})

\* the events directory before any export
EmptyEventsDir ==
    [master |-> [present |-> FALSE, total_events |-> 0,
                 events_by_track |-> <<>>, events |-> <<>>],
     tracks |-> [track \in L5Tracks |-> NoEventFile]]

\* the events directory is empty or was left by an export of an earlier
\* state of event_metadata (race files are written and rewritten, never
\* removed)
L5EarlierDirs(files) ==
    {old \in L5Dirs : \A rc \in L5RaceKeys : old[rc].present => files[rc].present}

InitL5 ==
    /\ l5_files \in L5Dirs
    /\ \E old \in L5EarlierDirs(l5_files) : \E order \in GlobOrders(old) :
           l5_dir = ConsolidatedDir(EmptyEventsDir, old, order)
    /\ l5_out = [status |-> "pending", all_events |-> <<>>]
    /\ DrvIdle
    /\ L1Idle
    /\ L2Idle
    /\ L3Idle
    /\ L4Idle

\* data_export.py 161-203: one call of consolidate_event_data()
L5_consolidate ==
    /\ l5_out.status = "pending"
    /\ \E order \in GlobOrders(l5_files) :
          /\ l5_dir' = ConsolidatedDir(l5_dir, l5_files, order)
          /\ l5_out' = [status |-> "returned",
                        all_events |-> AllEvents(l5_files, order)]
    /\ UNCHANGED <<l5_files, drvVars, l1Vars, l2Vars, l3Vars, l4Vars>>

NextL5 == L5_consolidate

SpecL5 == InitL5 /\ [][NextL5]_vars

-----------------------------------------------------------------------------
(* Pipeline driver                                                         *)
(* Three scripts work on the same data_processed directory:                *)
(* run_pipeline.py, run_analysis_only.py and simple_export.py.             *)

\* bound: how often a script is invoked over the same output directory
MaxRuns == 2

\* the scripts, and the position at which each starts
Entries == {"run_pipeline", "run_analysis_only", "simple_export"}

StartOf(script) ==
    CASE script = "run_pipeline" -> "step1"
      [] script = "run_analysis_only" -> "load"
      [] script = "simple_export" -> "simple"

\* (Track, Race_Number) folders of the driver-level runs, in groupby order
DrvRaces == << <<"Barber", "R1">>, <<"Barber", "R2">> >>

\* events a race can yield at driver level (one identifier per race and run)
DrvEventIds == {"S_001_L1_WIN1_LOS2", "S_001_L1_WIN2_LOS1"}

DrvEvent(rc, id) ==
    [Track |-> rc[1], Race_Number |-> rc[2], Critical_Event_ID |-> id,
     Reason_Code |-> "unset"]

\* what detect_critical_events can confirm per race: nothing or one event
DrvRaceResults(rc) == {<<>>} \cup {<<DrvEvent(rc, id)>> : id \in DrvEventIds}

DrvDetections == {f \in [Range(DrvRaces) -> UNION {DrvRaceResults(rc) : rc \in Range(DrvRaces)}] :
                     \A rc \in Range(DrvRaces) : f[rc] \in DrvRaceResults(rc)}

\* event_detection.py 146-154: a race file is written only when the race has
\* confirmed events; other files of the directory are left as they are.
\* done is the number of races the loop got through
SaveRaceFiles(files, found, done) ==
    [rc \in DOMAIN files |->
        IF found[rc] # <<>> /\ \E k \in 1..done : DrvRaces[k] = rc
        THEN found[rc] ELSE files[rc]]

\* the path of the event file of race rc below data_processed
RacePath(rc) == <<"event_metadata", rc[1], rc[2], "Events.json">>

\* event_detection.py 148 and causal_analysis.py 167: the event files of
\* the races of the events evs
RacePaths(evs) ==
    {RacePath(<<evs[i].Track, evs[i].Race_Number>>) : i \in DOMAIN evs}

ParquetPath == <<"master_timeline.parquet">>

ProfilesPath == <<"driver_profiles.json">>

\* ingestion_sync.py 359-367: the writes of ingest_and_synchronize_data,
\* first the master timeline, then the driver profiles
L1Steps == 2

\* ingestion_sync.py 359-367: the files written when the first done writes
\* were begun (a file whose dump fails exists, cut off); the master
\* timeline is written only when the table has rows (359)
L1Written(rows, done) ==
    (IF done >= 1 /\ rows THEN {ParquetPath} ELSE {})
    \cup (IF done >= 2 THEN {ProfilesPath} ELSE {})

\* ingestion_sync.py 359-370: the files a call that returns its table has
\* written
L1Paths(rows) == L1Written(rows, L1Steps)

\* ingestion_sync.py 370: what a call that returns a table hands to
\* run_full_pipeline, a table with rows or one without
L1Table(rows) == IF rows THEN "df" ELSE "empty"

\* sector_discovery.py 148-150
L2Paths == {ParquetPath}

\* what the export reads off the master timeline: whether it finds GPS
\* columns (data_export.py 36-45), whether a track has a row with a GPS
\* fix (53), whether there is a Sector_ID column (83) and whether a track
\* has a critical sector with a GPS fix (111-143)
ExportInputs ==
    [gps_cols : BOOLEAN, gps_rows : BOOLEAN, sector_col : BOOLEAN,
     sectors : BOOLEAN]

\* data_export.py 165-173 and simple_export.py 32-38: the events of every
\* *_Events.json of event_metadata
EventsOnDisk(files) ==
    SeqConcat(files, SelectSeq(DrvRaces, LAMBDA rc : files[rc] # NoFile))

\* the writes of export_all_frontend_data in the order of the code
\* (data_export.py 66, 74, 147, 155, 192, 198, 242, 272): track
\* boundaries, tracks index, track sectors, sectors index, all events,
\* track events, timeline index, driver profiles
ExportSteps == 8

\* data_export.py 192: the write of events/all_events.json
AllEventsStep == 5

\* data_export.py 47-75, 101-156, 183-199, 241-243, 269-274: the files
\* written by the first done writes of export_all_frontend_data
L5Paths(x, all_events, existing, done) ==
    (IF done >= 1 /\ x.gps_cols /\ x.gps_rows
     THEN {<<"tracks", rc[1], "boundaries.json">> : rc \in Range(DrvRaces)}
     ELSE {})
    \cup (IF done >= 2 /\ x.gps_cols
          THEN {<<"tracks", "tracks_index.json">>} ELSE {})
    \cup (IF done >= 3 /\ x.sector_col /\ x.gps_cols /\ x.sectors
          THEN {<<"sectors", rc[1], "sectors.json">> : rc \in Range(DrvRaces)}
          ELSE {})
    \cup (IF done >= 4 /\ x.sector_col /\ x.gps_cols
          THEN {<<"sectors", "sectors_index.json">>} ELSE {})
    \cup (IF done >= AllEventsStep /\ all_events # <<>>
          THEN {<<"events", "all_events.json">>} ELSE {})
    \cup (IF done >= 6
          THEN {<<"events", all_events[i].Track, "events.json">> :
                   i \in DOMAIN all_events}
          ELSE {})
    \cup (IF done >= 7 THEN {<<"timeline", "timeline_index.json">>} ELSE {})
    \cup (IF done >= 8 /\ ProfilesPath \in existing
          THEN {<<"drivers", "driver_profiles.json">>} ELSE {})

\* the sub-steps of simple_export.py that write (26-27, 41-42, 56-57,
\* 61-64): tracks, events, timeline index, driver profiles
SimpleSteps == 4

\* simple_export.py 26-64: the files written by the first done sub-steps
SimplePaths(existing, done) ==
    (IF done >= 1 THEN {<<"tracks", "all_tracks.json">>} ELSE {})
    \cup (IF done >= 2 THEN {<<"events", "all_events.json">>} ELSE {})
    \cup (IF done >= 3 THEN {<<"timeline", "index.json">>} ELSE {})
    \cup (IF done >= 4 /\ ProfilesPath \in existing
          THEN {<<"drivers", "profiles.json">>} ELSE {})

\* the files below data_processed that the scripts write
DrvPaths ==
    L1Paths(TRUE) \cup L2Paths \cup {RacePath(rc) : rc \in Range(DrvRaces)}
    \cup UNION {L5Paths(x, <<DrvEvent(rc, id)>>, L1Paths(TRUE), ExportSteps) :
                   x \in ExportInputs, rc \in Range(DrvRaces), id \in DrvEventIds}
    \cup SimplePaths(L1Paths(TRUE), SimpleSteps)

\* stage has written the files paths
WrittenBy(w, stage, paths) ==
    [path \in DOMAIN w |->
        IF path \in paths THEN w[path] \cup {stage} ELSE w[path]]

\* events/all_events.json does not exist
NoExport == [layout |-> "none", events |-> <<>>]

\* run_pipeline.py 21-23
AfterStep1(res) == IF res = "None" THEN "returned" ELSE "step2"

\* mutant: the None check after sector discovery is missing
AfterStep2_NoAbort(res) == "step3"

\* run_pipeline.py 29-31
AfterStep2(res) == IF res = "None" THEN "returned" ELSE "step3"

\* run_pipeline.py 37-39
AfterStep3(evs) == IF evs = <<>> THEN "returned" ELSE "step4"

\* run_analysis_only.py 39-47: without events the causal analysis is
\* skipped and the export still runs
AfterAnalysisStep3(evs) == IF evs = <<>> THEN "a_step5" ELSE "a_step4"

\* run_pipeline.py 53-59: the except clause prints and falls off the end
\* of the script, no path calls sys.exit, so the interpreter ends with
\* status 0; run_analysis_only.py 57-58 and simple_export.py catch
\* nothing, so an exception ends the interpreter with status 1
ExitStatus(script, pc) ==
    IF script # "run_pipeline" /\ pc = "raised" THEN 1 ELSE 0

Init ==
    /\ run = 1
    /\ entry \in Entries
    /\ dpc = StartOf(entry)
    /\ stages = <<>>
    /\ ret = [L1 |-> "unset", L2 |-> "unset"]
    /\ log = {}
    /\ raisedIn = "none"
    /\ exitCode = -1
    /\ event_list = <<>>
    /\ event_files = [rc \in Range(DrvRaces) |-> NoFile]
    /\ exported = NoExport
    /\ on_disk = {}
    /\ written = [path \in DrvPaths |-> {}]
    /\ L2Idle
    /\ L3Idle
    /\ L4Idle
    /\ L1Idle
    /\ L5Idle

Raise(stage) ==
    /\ stages' = Append(stages, stage)
    /\ raisedIn' = stage
    /\ dpc' = "raised"

\* run_pipeline.py 17-23 with ingestion_sync.py 42-44, 355-370: the call
\* returns None before it writes (no file, or no file that could be
\* processed), or it returns its table, or it raises. A table with rows is
\* written to master_timeline.parquet (359-363) and a table without rows
\* is not; driver_profiles.json is written after that in both cases
\* (366-367), so an exception at its open or its dump comes after the
\* write of the master timeline
Step1_ingest ==
    /\ UNCHANGED compVars
    /\ dpc = "step1"
    /\ \/ \E rows \in BOOLEAN : \E done \in 0..L1Steps :
            /\ Raise("L1")
            /\ written' = WrittenBy(written, "L1", L1Written(rows, done))
            /\ on_disk' = on_disk \cup L1Written(rows, done)
            /\ UNCHANGED <<run, entry, ret, log, exitCode, event_list,
                           event_files, exported>>
       \/ /\ stages' = Append(stages, "L1")
          /\ ret' = [ret EXCEPT !.L1 = "None"]
          /\ dpc' = AfterStep1("None")
          /\ log' = log \cup {"aborted_ingestion"}
          /\ UNCHANGED <<run, entry, raisedIn, exitCode, event_list,
                         event_files, exported, written, on_disk>>
       \/ \E rows \in BOOLEAN :
            /\ stages' = Append(stages, "L1")
            /\ ret' = [ret EXCEPT !.L1 = L1Table(rows)]
            /\ dpc' = AfterStep1(L1Table(rows))
            /\ written' = WrittenBy(written, "L1", L1Paths(rows))
            /\ on_disk' = on_disk \cup L1Paths(rows)
            /\ UNCHANGED <<run, entry, raisedIn, exitCode, log, event_list,
                           event_files, exported>>

\* run_pipeline.py 25-31 with sector_discovery.py 34-41, 70-75, 148-154:
\* the call is made without a table and reads master_timeline.parquet,
\* the one this run or an earlier run has left. Without the file it
\* returns None (38-41); with it, it returns None before it writes (no
\* GPS columns, or no track), returns its table after the write, or
\* raises, before the write of master_timeline.parquet or in it
Step2_sectors ==
    /\ UNCHANGED compVars
    /\ dpc = "step2"
    /\ \/ \E paths \in {{}} \cup (IF ParquetPath \in on_disk THEN {L2Paths} ELSE {}) :
            /\ Raise("L2")
            /\ written' = WrittenBy(written, "L2", paths)
            /\ on_disk' = on_disk \cup paths
            /\ UNCHANGED <<run, entry, ret, log, exitCode, event_list,
                           event_files, exported>>
       \/ \E res \in {"None"} \cup (IF ParquetPath \in on_disk THEN {"df"} ELSE {}) :
            /\ stages' = Append(stages, "L2")
            /\ ret' = [ret EXCEPT !.L2 = res]
            /\ dpc' = AfterStep2(res)
            /\ log' = IF res = "None" THEN log \cup {"aborted_sectors"} ELSE log
            /\ written' = IF res = "None" THEN written
                           ELSE WrittenBy(written, "L2", L2Paths)
            /\ on_disk' = IF res = "None" THEN on_disk ELSE on_disk \cup L2Paths
            /\ UNCHANGED <<run, entry, raisedIn, exitCode, event_list, event_files,
                           exported>>

\* event_detection.py 48-157 as seen by a driver: the call returns the
\* lists found, or raises in the loop after done races, whose files are
\* written by then
DetectEvents(found, done) ==
    LET evs == SeqConcat(found, SubSeq(DrvRaces, 1, done)) IN
    /\ event_files' = SaveRaceFiles(event_files, found, done)
    /\ written' = WrittenBy(written, "L3", RacePaths(evs))
    /\ IF done = Len(DrvRaces)
       THEN /\ stages' = Append(stages, "L3")
            /\ event_list' = evs
            /\ raisedIn' = raisedIn
       ELSE /\ Raise("L3")
            /\ event_list' = event_list

\* run_pipeline.py 33-39 with event_detection.py 146-157
Step3_events ==
    /\ UNCHANGED compVars
    /\ dpc = "step3"
    /\ \E found \in DrvDetections : \E done \in 0..Len(DrvRaces) :
          /\ DetectEvents(found, done)
          /\ IF done = Len(DrvRaces)
             THEN /\ dpc' = AfterStep3(event_list')
                  /\ log' = IF event_list' = <<>> THEN log \cup {"no_events"}
                            ELSE log
             ELSE log' = log
    /\ UNCHANGED <<run, entry, ret, exitCode, exported, on_disk>>

ReasonCodes == {"Brake_Pressure_Delta", "Brake_Timing_Delta",
                "Throttle_Commit_Delta", "Gear_Delta", "Data_Missing",
                "Invalid_Sector"}

\* reason codes the driver-level runs draw from (one computed, one fallback)
DrvReasonCodes == {"Brake_Pressure_Delta", "Data_Missing"}

\* causal_analysis.py 163-169: the races of the updated events are
\* rewritten one after the other, in groupby order; done is the number of
\* races the loop got through
RewriteRaceFiles(files, evs, done) ==
    [rc \in DOMAIN files |->
        LET mine == SelectSeq(evs, LAMBDA e : <<e.Track, e.Race_Number>> = rc)
        IN IF mine # <<>> /\ \E k \in 1..done : DrvRaces[k] = rc
           THEN mine ELSE files[rc]]

\* causal_analysis.py 53, 75, 150: the loop writes Reason_Code into the
\* caller's event dictionaries; tagged is the number of events it got
\* through
TagEvents(evs, code, tagged) ==
    [i \in DOMAIN evs |->
        IF i <= tagged THEN [evs[i] EXCEPT !.Reason_Code = code[i]]
        ELSE evs[i]]

\* causal_analysis.py 29-169 as seen by a driver: the call tags the events
\* in place and rewrites their race files; it raises in the loop over the
\* events, with the events before the failing one tagged and no file
\* rewritten, or in the loop that saves, with every event tagged and the
\* files of the first done races rewritten
AnalyzeEvents(next) ==
    \E code \in [DOMAIN event_list -> DrvReasonCodes] :
        \/ \E tagged \in 0..(Len(event_list) - 1) :
              /\ Raise("L4")
              /\ event_list' = TagEvents(event_list, code, tagged)
              /\ UNCHANGED <<event_files, written>>
        \/ \E done \in 0..Len(DrvRaces) :
              LET evs == TagEvents(event_list, code, Len(event_list))
                  saved == SelectSeq(evs, LAMBDA e :
                               \E k \in 1..done :
                                   DrvRaces[k] = <<e.Track, e.Race_Number>>)
              IN /\ event_list' = evs
                 /\ event_files' = RewriteRaceFiles(event_files, evs, done)
                 /\ written' = WrittenBy(written, "L4", RacePaths(saved))
                 /\ IF done = Len(DrvRaces)
                    THEN /\ stages' = Append(stages, "L4")
                         /\ dpc' = next
                         /\ raisedIn' = raisedIn
                    ELSE Raise("L4")

\* run_pipeline.py 41-43
Step4_causal ==
    /\ UNCHANGED compVars
    /\ dpc = "step4"
    /\ AnalyzeEvents("step5")
    /\ UNCHANGED <<run, entry, ret, log, exitCode, exported, on_disk>>

\* data_export.py 161-203: the aggregate is written only when at least one
\* event was read
consolidate_event_data(files, old) ==
    IF EventsOnDisk(files) # <<>>
    THEN [layout |-> "master", events |-> EventsOnDisk(files)]
    ELSE old

\* data_export.py 249-284: without master_timeline.parquet the call
\* returns before it writes anything (254-259); else it goes through its
\* writes and returns, or raises at write done + 1
ExportAll(x, done) ==
    IF ParquetPath \notin on_disk
    THEN /\ stages' = Append(stages, "L5")
         /\ dpc' = "returned"
         /\ UNCHANGED <<exported, written, raisedIn>>
    ELSE /\ exported' = IF done >= AllEventsStep
                        THEN consolidate_event_data(event_files, exported)
                        ELSE exported
         /\ written' = WrittenBy(written, "L5",
                           L5Paths(x, EventsOnDisk(event_files), on_disk, done))
         /\ IF done = ExportSteps
            THEN /\ stages' = Append(stages, "L5")
                 /\ dpc' = "returned"
                 /\ raisedIn' = raisedIn
            ELSE Raise("L5")

\* run_pipeline.py 45-49
Step5_export ==
    /\ UNCHANGED compVars
    /\ dpc = "step5"
    /\ \E x \in ExportInputs : \E done \in 0..ExportSteps : ExportAll(x, done)
    /\ log' = IF dpc' = "returned" THEN log \cup {"complete"} ELSE log
    /\ UNCHANGED <<run, entry, ret, exitCode, event_list, event_files, on_disk>>

\* run_analysis_only.py 21-30: read_parquet raises when the master
\* timeline does not exist
Analysis_load ==
    /\ UNCHANGED compVars
    /\ dpc = "load"
    /\ IF ParquetPath \in on_disk
       THEN dpc' = "a_step3" /\ UNCHANGED <<stages, raisedIn>>
       ELSE Raise("load")
    /\ UNCHANGED <<run, entry, ret, log, exitCode, event_list, event_files,
                   exported, on_disk, written>>

\* run_analysis_only.py 32-36
Analysis_events ==
    /\ UNCHANGED compVars
    /\ dpc = "a_step3"
    /\ \E found \in DrvDetections : \E done \in 0..Len(DrvRaces) :
          /\ DetectEvents(found, done)
          /\ IF done = Len(DrvRaces)
             THEN /\ dpc' = AfterAnalysisStep3(event_list')
                  /\ log' = IF event_list' = <<>> THEN log \cup {"skipped_causal"}
                            ELSE log
             ELSE log' = log
    /\ UNCHANGED <<run, entry, ret, exitCode, exported, on_disk>>

\* run_analysis_only.py 38-41
Analysis_causal ==
    /\ UNCHANGED compVars
    /\ dpc = "a_step4"
    /\ AnalyzeEvents("a_step5")
    /\ UNCHANGED <<run, entry, ret, log, exitCode, exported, on_disk>>

\* run_analysis_only.py 45-49
Analysis_export ==
    /\ UNCHANGED compVars
    /\ dpc = "a_step5"
    /\ \E x \in ExportInputs : \E done \in 0..ExportSteps : ExportAll(x, done)
    /\ log' = IF dpc' = "returned" THEN log \cup {"analysis_complete"} ELSE log
    /\ UNCHANGED <<run, entry, ret, exitCode, event_list, event_files, on_disk>>

\* simple_export.py 9-72: the script writes its files one after the other
\* and ends, or raises in sub-step done + 1; events/all_events.json is
\* written whether or not an event was read
Simple_export ==
    /\ UNCHANGED compVars
    /\ dpc = "simple"
    /\ \E done \in 0..SimpleSteps :
          /\ exported' = IF done >= 2
                         THEN [layout |-> "simple",
                               events |-> EventsOnDisk(event_files)]
                         ELSE exported
          /\ written' = WrittenBy(written, "simple_export",
                                  SimplePaths(on_disk, done))
          /\ IF done = SimpleSteps
             THEN /\ stages' = Append(stages, "simple_export")
                  /\ dpc' = "returned"
                  /\ raisedIn' = raisedIn
             ELSE Raise("simple_export")
    /\ UNCHANGED <<run, entry, ret, log, exitCode, event_list, event_files,
                   on_disk>>

\* run_pipeline.py 51-59, run_analysis_only.py 57-58: the script ends
\* after its function returned or an exception left it
MainExit ==
    /\ UNCHANGED compVars
    /\ dpc \in {"returned", "raised"}
    /\ exitCode' = ExitStatus(entry, dpc)
    /\ dpc' = "exited"
    /\ UNCHANGED <<run, entry, stages, ret, log, raisedIn, event_list,
                   event_files, exported, on_disk, written>>

\* a script is invoked again over the same data_processed directory
NextRun ==
    /\ UNCHANGED compVars
    /\ dpc = "exited"
    /\ run < MaxRuns
    /\ run' = run + 1
    /\ entry' \in Entries
    /\ dpc' = StartOf(entry')
    /\ stages' = <<>>
    /\ ret' = [L1 |-> "unset", L2 |-> "unset"]
    /\ log' = {}
    /\ raisedIn' = "none"
    /\ exitCode' = -1
    /\ event_list' = <<>>
    /\ written' = [path \in DrvPaths |-> {}]
    /\ UNCHANGED <<event_files, exported, on_disk>>

Next ==
    \/ Step1_ingest
    \/ Step2_sectors
    \/ Step3_events
    \/ Step4_causal
    \/ Step5_export
    \/ Analysis_load
    \/ Analysis_events
    \/ Analysis_causal
    \/ Analysis_export
    \/ Simple_export
    \/ MainExit
    \/ NextRun

Spec == Init /\ [][Next]_vars

-----------------------------------------------------------------------------
(* Driver claims                                                           *)

PipelineOrder == <<"L1", "L2", "L3", "L4", "L5">>

IsPrefix(s, t) == Len(s) <= Len(t) /\ \A i \in DOMAIN s : s[i] = t[i]

Started(stage) == \E i \in DOMAIN stages : stages[i] = stage

\* L3 returned normally in this run of run_full_pipeline with an empty
\* event list
L3ReturnedNoEvents ==
    /\ entry = "run_pipeline"
    /\ ret.L1 = "df" /\ ret.L2 = "df"
    /\ Started("L3") /\ raisedIn # "L3"
    /\ event_list = <<>>

Aborted == ret.L1 = "None" \/ ret.L2 = "None" \/ raisedIn # "none"

\* C1: when L1 and L2 succeed and L3 returns zero events, the finished run
\* has logged the "no events" message and has executed the Export Layer L5.
C1_NoEventsStillExports ==
    (dpc = "exited" /\ L3ReturnedNoEvents)
        => ("no_events" \in log /\ Started("L5"))

\* C2: in run_full_pipeline a failure signal from L1 (resp. L2) leaves L1
\* (resp. L1, L2) as the only stages of the run; in every run the stages
\* started form a prefix of L1, L2, L3, L4, L5, so they start in that order
\* and each at most once.
C2_AbortAndOrder ==
    entry = "run_pipeline" =>
        /\ IsPrefix(stages, PipelineOrder)
        /\ ret.L1 = "None" => stages = <<"L1">>
        /\ ret.L2 = "None" => stages = <<"L1", "L2">>

\* C2 witness: a finished run in which sector discovery returned None
C2_Witness ==
    entry = "run_pipeline" /\ dpc = "exited" /\ ret.L1 = "df" /\ ret.L2 = "None" /\ stages = <<"L1", "L2">>

\* C3: a finished run of run_pipeline.py has exit code 0 when every stage
\* completed and a non-zero exit code when it was aborted (L1 or L2 failure,
\* or an exception).
C3_ExitCodes ==
    (entry = "run_pipeline" /\ dpc = "exited") =>
        /\ "complete" \in log => exitCode = 0
        /\ Aborted => exitCode # 0

\* the events (race and identifier) of a list
EventsOf(events) ==
    {<<events[i].Track, events[i].Race_Number, events[i].Critical_Event_ID>> :
        i \in DOMAIN events}

\* the events an event file holds
EventsIn(file) == IF file = NoFile THEN {} ELSE EventsOf(file)

\* the events held by the race files of event_metadata
EventsInRaceFiles == UNION {EventsIn(event_files[rc]) : rc \in DOMAIN event_files}

\* the run of run_full_pipeline has gone through all five stages and ended
RunCompleted ==
    /\ entry = "run_pipeline"
    /\ dpc = "exited" /\ Started("L5") /\ raisedIn = "none"

\* C15: after any sequence of runs over the same output directory, the
\* events in the event_metadata race files and in the exported aggregate
\* are exactly the events emitted by the most recent run.
C15_ArtifactsOfLastRun ==
    RunCompleted =>
        /\ EventsInRaceFiles = EventsOf(event_list)
        /\ EventsOf(exported.events) = EventsOf(event_list)

\* C18: the stages write disjoint sets of paths: no file under
\* data_processed is written by two different stages among L1..L5.
C18_SingleWriter ==
    \A path \in DOMAIN written :
        Cardinality(written[path] \cap Range(PipelineOrder)) <= 1

-----------------------------------------------------------------------------
(* Sector discovery claims (SpecL2)                                        *)

L2Done == l2_out # "pending" /\ l2_out # "None"

\* the rows of track t in the order in which L2 returned them
TrackRows(out, t) == SelectSeq(out, LAMBDA r : r.Track = t)

L2Tracks == {"Barber", "Sonoma"}

\* the identifier S_NNN of ordinal k
Ordinal(k) == <<"S", "_">> \o zfill(Str(k), 3)

\* the S_ identifiers carried by the samples of track t
SectorIdsOf(out, t) ==
    {out[i].Sector_ID : i \in {j \in DOMAIN out :
        out[j].Track = t /\ startswith(out[j].Sector_ID, <<"S", "_">>)}}

\* C5: after sector discovery the S_NNN identifiers of every track are
\* exactly S_001 .. S_k for some k >= 0 (ordinals start at 1, no gaps).
C5_DenseOrdinals ==
    L2Done => \A t \in L2Tracks :
        LET ids == SectorIdsOf(l2_out, t)
        IN ids = {Ordinal(k) : k \in 1..Cardinality(ids)}

\* C5 witness: a labelled track that carries at least three sectors
C5_Witness ==
    L2Done /\ \E t \in L2Tracks : Cardinality(SectorIdsOf(l2_out, t)) >= 3

\* C6: two critical samples of one track that lie at the same position of
\* the track (same latitude and longitude) carry the same S_NNN identifier.
C6_StablePerCorner ==
    L2Done => \A i, j \in DOMAIN l2_out :
        ( /\ l2_out[i].Track = l2_out[j].Track
          /\ startswith(l2_out[i].Sector_ID, <<"S", "_">>)
          /\ startswith(l2_out[j].Sector_ID, <<"S", "_">>)
          /\ l2_out[i].lat = l2_out[j].lat
          /\ l2_out[i].long = l2_out[j].long )
        => l2_out[i].Sector_ID = l2_out[j].Sector_ID

\* C7: in the row order of a labelled track, every sample between two
\* samples with the same S_NNN identifier carries that identifier too.
C7_ContiguousRuns ==
    L2Done => \A t \in L2Tracks :
        LET rows == TrackRows(l2_out, t)
        IN \A i, k \in DOMAIN rows :
            (i < k /\ startswith(rows[i].Sector_ID, <<"S", "_">>)
                   /\ rows[i].Sector_ID = rows[k].Sector_ID)
            => \A j \in i..k : rows[j].Sector_ID = rows[i].Sector_ID

\* C7 witness: a track with a sector run of two samples or more, then a
\* STRAIGHT sample, then another sector
C7_Witness ==
    L2Done /\ \E t \in L2Tracks :
        LET rows == TrackRows(l2_out, t)
        IN \E i, j, k \in DOMAIN rows :
            /\ i + 1 < j /\ j < k
            /\ startswith(rows[i].Sector_ID, <<"S", "_">>)
            /\ rows[i + 1].Sector_ID = rows[i].Sector_ID
            /\ rows[j].Sector_ID = STRAIGHT
            /\ startswith(rows[k].Sector_ID, <<"S", "_">>)

L2Ended == l2_out # "pending"

\* C17: only an empty Master Table stops the pipeline. When sector
\* discovery has ended on a table with rows, GPS columns or not, its result
\* is not the failure signal and the driver goes on to event detection.
C17_MissingColumnsNeverAbort ==
    (L2Ended /\ l2_df.rows # <<>>) => AfterStep2(l2_out) = "step3"

\* the rows of the output that stem from input sample i
CopiesOf(out, sample) == {k \in DOMAIN out : out[k].id = sample.id}

\* C24: sector discovery changes samples only by adding the sector label:
\* every sample of the table passed in, a sample without GPS coordinate
\* included, is in the returned table exactly once with its track and
\* coordinates unchanged, and the returned table holds no other sample.
C24_SamplesPreserved ==
    L2Done =>
        /\ \A i \in DOMAIN l2_df.rows :
               /\ Cardinality(CopiesOf(l2_out, l2_df.rows[i])) = 1
               /\ \A k \in CopiesOf(l2_out, l2_df.rows[i]) :
                      /\ l2_out[k].Track = l2_df.rows[i].Track
                      /\ l2_out[k].lat = l2_df.rows[i].lat
                      /\ l2_out[k].long = l2_df.rows[i].long
        /\ \A k \in DOMAIN l2_out :
               \E i \in DOMAIN l2_df.rows : l2_out[k].id = l2_df.rows[i].id

\* the change of heading at sample i of the raw trace, in hundredths of
\* a degree, for 1 < i < Len(rows)
RawTurn(rows, i) ==
    DeltaHeading(
        <<calculate_bearing(2 * rows[i - 1].lat, 2 * rows[i - 1].long,
                            2 * rows[i].lat, 2 * rows[i].long),
          calculate_bearing(2 * rows[i].lat, 2 * rows[i].long,
                            2 * rows[i + 1].lat, 2 * rows[i + 1].long)>>, 2)

\* the table holds one track whose samples all have a GPS fix, enough of
\* them to be labelled, and every step turns by the same amount above the
\* curvature threshold
TurnsEvenly(rows) ==
    /\ Len(rows) >= MIN_VALID_GPS
    /\ \A i \in DOMAIN rows :
           rows[i].Track = rows[1].Track /\ rows[i].lat # NaN /\ rows[i].long # NaN
    /\ \A i \in 2..(Len(rows) - 1) :
           RawTurn(rows, i) = RawTurn(rows, 2) /\ IsCritical(RawTurn(rows, i))

\* C25: for a single-track trace in which every step turns by the same
\* amount above the threshold, sector discovery emits exactly one sector,
\* S_001, and labels every sample of the trace with it, the first and the
\* last sample included.
C25_CircleIsOneSector ==
    (L2Done /\ TurnsEvenly(l2_df.rows)) =>
        /\ Len(l2_out) = Len(l2_df.rows)
        /\ \A k \in DOMAIN l2_out : l2_out[k].Sector_ID = Ordinal(1)

-----------------------------------------------------------------------------
(* Event detection claims (SpecL3)                                         *)

L3Done == l3_out # "pending"

\* C8: no two events returned by one call of detect_critical_events share
\* their Critical_Event_ID, across all tracks and races of the call.
C8_UniqueEventIds ==
    L3Done => \A i, j \in DOMAIN l3_out :
        i # j => l3_out[i].Critical_Event_ID # l3_out[j].Critical_Event_ID

\* the test that sends an event of L4 into its Invalid_Sector branch fails
InSector(event) ==
    startswith(event.Sector_ID, <<"S", "_">>)
        /\ ~IsInvalidSector(event.Sector_ID)

\* C9: every event that detect_critical_events has confirmed, returned or
\* written to a race file has a Sector_ID that begins with S_, so that
\* run_causal_analysis does not tag it Invalid_Sector.
C9_EventsInSectors ==
    /\ \A i \in DOMAIN l3_all : InSector(l3_all[i])
    /\ L3Done => \A i \in DOMAIN l3_out : InSector(l3_out[i])
    /\ \A rc \in DOMAIN l3_files : l3_files[rc] # NoFile =>
           \A i \in DOMAIN l3_files[rc] : InSector(l3_files[rc][i])

\* C9 witness: events were returned for a table whose first half is
\* labelled STRAIGHT and in which positions change on STRAIGHT rows too
C9_Witness ==
    /\ L3Done /\ l3_out # <<>>
    /\ l3_in.sector = 3 /\ l3_in.gap = -9 /\ l3_in.profile[1] = 5

\* the table of the call holds one race of vehicles 1 and 2 in which every
\* sample of a vehicle lies d metres of normalized lap distance from the
\* vehicle's previous one, vehicle 1 is behind vehicle 2 up to one
\* timestamp inside S_001 and ahead of it from then on, for 0.5 s or more
SwapsOnceIn(d) ==
    LET group == RaceGroup(L3Table(l3_in), <<"Barber", "R1">>)
        norm == LapDistNormalized(group, TrackLength(group))
        prev == PrevRow(group)
        times == {group[i].Time : i \in DOMAIN group}
        row(v, t) == CHOOSE i \in DOMAIN group :
                        group[i].Vehicle_ID = v /\ group[i].Time = t
        ahead(t) == norm[row(1, t)] > norm[row(2, t)]
    IN /\ Len(group) = Len(L3Table(l3_in))
       /\ {group[i].Vehicle_ID : i \in DOMAIN group} = {1, 2}
       /\ \A i \in DOMAIN group :
              prev[i] # 0 => Abs(norm[i] - norm[prev[i]]) = d
       /\ \E t0 \in times \ {MinOf(times)} :
              /\ \A t \in times : ahead(t) <=> t >= t0
              /\ \A v \in {1, 2} : group[row(v, t0)].Sector_ID = S_001
              /\ MaxOf(times) - t0 >= 500

\* C12: when vehicles 1 and 2 of one race swap rank once inside S_001,
\* vehicle 1 moving from behind to ahead, the new order persists for 0.5 s
\* and each vehicle's lap distance changes by 5 m per step,
\* detect_critical_events returns exactly one event, with Winner_ID 1,
\* Loser_ID 2 and Critical_Event_ID S_001_L1_WIN1_LOS2.
C12_SingleCrossingOneEvent ==
    (L3Done /\ l3_in.cross # <<>> /\ SwapsOnceIn(5)) =>
        /\ Len(l3_out) = 1
        /\ l3_out[1].Winner_ID = Str(1)
        /\ l3_out[1].Loser_ID = Str(2)
        /\ l3_out[1].Critical_Event_ID
               = EventId(S_001, 1, Str(1), Str(2))

\* event_detection.py 107-113: the candidate groups the persistence loop
\* walks through, in Event_Group order, for one order sortFlip of the
\* candidates of equal Time
TestedGroups(group, cur, prev, cand, sortFlip) ==
    LET pe == SortedByTime(group, sortFlip, cand)
        gid == EventGroupId(pe, cur, prev)
        ngroups == IF pe = <<>> THEN 0 ELSE gid[Len(pe)]
    IN MkSeq(LAMBDA g : {pe[k] : k \in {m \in DOMAIN pe : gid[m] = g}}, ngroups)

\* the events of a list that belong to race rc
EventsOfRace(events, rc) ==
    SelectSeq(events, LAMBDA e : e.Track = rc[1] /\ e.Race_Number = rc[2])

\* the event carries the identifier a candidate group stamps its event
\* with: sector and lap of the winner's sample, the two vehicles
StampedBy(event, group, track_length, cur, members) ==
    \E p \in WinnerLoserPairs(cur, members) :
        /\ event.Winner_ID = Str(group[p[1]].Vehicle_ID)
        /\ event.Loser_ID = Str(group[p[2]].Vehicle_ID)
        /\ event.Sector_ID = group[p[1]].Sector_ID
        /\ event.Lap_Number
               = (group[p[1]].Laptrigger_lapdist_dls \div track_length) + 1

\* last candidate time minus first candidate time of a group reaches 0.3 s
SpansThreshold(group, members) ==
    MaxOf({group[i].Time : i \in members})
        - MinOf({group[i].Time : i \in members}) >= 300

\* the events of a race against its candidate groups: every event is
\* stamped from a group that spans 0.3 s, every group that spans 0.3 s has
\* its event in the list, and there are no more events than such groups
PersistenceFilter(events, group, track_length, rc, cur, groups) ==
    LET long == {g \in DOMAIN groups : SpansThreshold(group, groups[g])}
    IN /\ Len(events) <= Cardinality(long)
       /\ \A k \in DOMAIN events : \E g \in long :
              StampedBy(events[k], group, track_length, cur, groups[g])
       /\ \A g \in long : \E k \in DOMAIN events :
              StampedBy(events[k], group, track_length, cur, groups[g])

\* P holds of the candidate groups of race rc under one of the row orders
\* the unstable sorts can produce; a race that is skipped has no groups
ForSomeGrouping(group, rc, P(_, _, _)) ==
    IF Len(group) < MIN_RACE_ROWS \/ TrackLength(group) < MIN_TRACK_LENGTH
    THEN P(<<>>, <<>>, 1)
    ELSE LET track_length == TrackLength(group)
             norm == LapDistNormalized(group, track_length)
             prev == PrevRow(group)
         IN \E rf \in SUBSET TieTimes(group, norm) :
               LET cur == CurrentPosition(group, norm, rf)
                   cand == PotentialEvents(group, norm, cur, prev)
                   shared == {group[i].Time : i \in {k \in cand :
                                 \E j \in cand :
                                     j # k /\ group[j].Time = group[k].Time}}
               IN \E sf \in SUBSET shared :
                     P(TestedGroups(group, cur, prev, cand, sf), cur,
                       track_length)

PersistenceInRace(events, group, rc) ==
    ForSomeGrouping(group, rc,
        LAMBDA groups, cur, track_length :
            PersistenceFilter(EventsOfRace(events, rc), group, track_length,
                              rc, cur, groups))

\* sample i of group has a previous sample of its vehicle and lies more
\* than the buffer of normalized lap distance from it
IsCleared(group, track_length, i) ==
    LET j == PrevOfVehicle(group, i, i - 1)
    IN /\ j # 0
       /\ Abs((group[i].Laptrigger_lapdist_dls % track_length)
              - (group[j].Laptrigger_lapdist_dls % track_length))
             > HYSTERESIS_BUFFER_METERS

\* the samples of a race in a critical sector at which the vehicle's rank
\* differs from its previous one while its lap distance moved by no more
\* than the buffer
BufferedSamples(group, track_length, cur) ==
    {i \in DOMAIN group :
        LET j == PrevOfVehicle(group, i, i - 1)
        IN /\ InCriticalSector(group[i])
           /\ j # 0 /\ cur[i] # cur[j]
           /\ ~IsCleared(group, track_length, i)}

\* the event is stamped from two samples of the candidate group: the
\* winner's, at the event's Timestamp, and the loser's
StampedFromGroup(event, group, members) ==
    \E w, l \in members :
        /\ group[w].Time = event.Timestamp
        /\ Str(group[w].Vehicle_ID) = event.Winner_ID
        /\ Str(group[l].Vehicle_ID) = event.Loser_ID

\* the events of a race against its candidate groups: every member of
\* every group is a cleared sample, so that a sample within the buffer or
\* without a previous sample is in no group and adds to no group's size
\* or time span, and every event is stamped from two members of one group
OnlyClearedSamples(events, group, rc) ==
    ForSomeGrouping(group, rc,
        LAMBDA groups, cur, track_length :
            /\ \A g \in DOMAIN groups : \A i \in groups[g] :
                   IsCleared(group, track_length, i)
            /\ \A k \in DOMAIN events : \E g \in DOMAIN groups :
                   StampedFromGroup(events[k], group, groups[g]))

\* no sample of the race lies more than the buffer of normalized lap
\* distance from the previous sample of its vehicle
AllWithinBuffer(group) ==
    \A i \in DOMAIN group : ~IsCleared(group, TrackLength(group), i)

\* the loop body of detect_critical_events has processed races; the last
\* of them is race l3_next - 1
RaceProcessed == l3_out = "pending" /\ l3_next > 1

\* C13: hysteresis. When a race has been processed, every sample of every
\* candidate group lies more than 2 m of normalized lap distance from the
\* previous sample of its vehicle: a position-change sample within 2 m of
\* it, or without a previous sample, is in no group, and every event of
\* the race is stamped from two samples of one such group. A race in
\* which no sample moves by more than 2 m, such as a two-vehicle crossing
\* at 1 m per step, yields no event, however often the vehicles swap.
C13_Hysteresis ==
    /\ RaceProcessed =>
           LET rc == L3Races(l3_in)[l3_next - 1]
           IN OnlyClearedSamples(EventsOfRace(l3_all, rc),
                                 RaceGroup(L3Table(l3_in), rc), rc)
    /\ L3Done =>
           \A rc \in Range(L3Races(l3_in)) :
               AllWithinBuffer(RaceGroup(L3Table(l3_in), rc))
                   => EventsOfRace(l3_out, rc) = <<>>

\* two samples within the buffer change rank in the same direction 0.3 s
\* or more apart, and no sample between them changes rank
WouldPersist(group, track_length, cur) ==
    LET buffered == BufferedSamples(group, track_length, cur)
        prev == PrevRow(group)
    IN \E i, j \in buffered :
          /\ group[j].Time - group[i].Time >= PERSISTENCE_THRESHOLD_MS
          /\ PositionChange(cur, prev, i) = PositionChange(cur, prev, j)
          /\ \A k \in DOMAIN group :
                 (group[i].Time < group[k].Time /\ group[k].Time < group[j].Time)
                     => (prev[k] = 0 \/ cur[k] = cur[prev[k]])

\* C13 witness: events were returned for a first race in which a vehicle
\* changed rank inside a critical sector on a sample within the buffer,
\* and the second race, in which no sample moves by more than 2 m, has
\* two such rank changes 0.3 s or more apart
C13_Witness ==
    /\ L3Done /\ l3_in.second = "slow"
    /\ EventsOfRace(l3_out, <<"Barber", "R1">>) # <<>>
    /\ LET group == RaceGroup(L3Table(l3_in), <<"Barber", "R1">>)
           track_length == TrackLength(group)
       IN BufferedSamples(group, track_length,
              CurrentPosition(group, LapDistNormalized(group, track_length), {}))
          # {}
    /\ LET group == RaceGroup(L3Table(l3_in), <<"Barber", "R2">>)
           track_length == TrackLength(group)
       IN /\ AllWithinBuffer(group)
          /\ WouldPersist(group, track_length,
                 CurrentPosition(group, LapDistNormalized(group, track_length), {}))

\* the loop body of detect_critical_events has just processed the first
\* race of the table; l3_all is then the race's confirmed_events_race
FirstRaceProcessed == l3_out = "pending" /\ l3_next = 2

\* C21: persistence filter. When a race has been processed, a candidate
\* group whose time span (last minus first candidate time) is below 0.3 s
\* has emitted no event, a group whose span is 0.3 s or more is confirmed
\* (its event is in the result), and each group has yielded at most one
\* event. Stated of the first race of every table.
C21_PersistenceFilter ==
    FirstRaceProcessed =>
        PersistenceInRace(l3_all, RaceGroup(L3Table(l3_in), L3Races(l3_in)[1]),
                          L3Races(l3_in)[1])

\* a race has a candidate group of two or more samples that spans less
\* than 0.3 s next to a group that spans 0.3 s or more
ShortAndLongGroups(group, rc) ==
    ForSomeGrouping(group, rc,
        LAMBDA groups, cur, track_length :
            /\ \E g \in DOMAIN groups :
                   Cardinality(groups[g]) >= 2
                       /\ ~SpansThreshold(group, groups[g])
            /\ \E g \in DOMAIN groups : SpansThreshold(group, groups[g]))

\* C21 witness: events were returned for a race that had both a group
\* below the threshold and a group at or above it
C21_Witness ==
    /\ FirstRaceProcessed /\ l3_all # <<>>
    /\ ShortAndLongGroups(RaceGroup(L3Table(l3_in), L3Races(l3_in)[1]),
                          L3Races(l3_in)[1])

\* the timestamps of a candidate group follow one another on the 50 ms
\* grid: each one but the first has a member 50 ms before it
ContiguousGroup(group, members) ==
    LET times == {group[i].Time : i \in members}
    IN \A t \in times : t = MinOf(times) \/ (t - GRID_MS) \in times

\* C22: the candidate groups tested for persistence are temporally
\* contiguous: the timestamps of a group's samples are adjacent on the
\* 50 ms grid, so that two candidates separated by a stretch of time
\* without candidates are never in one group.
C22_GroupsContiguous ==
    FirstRaceProcessed =>
        ForSomeGrouping(RaceGroup(L3Table(l3_in), L3Races(l3_in)[1]),
            L3Races(l3_in)[1],
            LAMBDA groups, cur, track_length :
                \A g \in DOMAIN groups :
                    ContiguousGroup(RaceGroup(L3Table(l3_in), L3Races(l3_in)[1]),
                                    groups[g]))

\* the event is stamped from two samples of one candidate group that
\* belong to two vehicles, the winner's with a better rank than the
\* vehicle's previous sample had and the loser's with a worse one
OvertakeOfGroup(event, group, track_length, cur, prev, members) ==
    \E p \in WinnerLoserPairs(cur, members) :
        /\ event.Timestamp = group[p[1]].Time
        /\ event.Winner_ID = Str(group[p[1]].Vehicle_ID)
        /\ event.Loser_ID = Str(group[p[2]].Vehicle_ID)
        /\ group[p[1]].Vehicle_ID # group[p[2]].Vehicle_ID
        /\ prev[p[1]] # 0 /\ cur[p[1]] < cur[prev[p[1]]]
        /\ prev[p[2]] # 0 /\ cur[p[2]] > cur[prev[p[2]]]

\* C29: in every event of a processed race Winner_ID and Loser_ID are two
\* different vehicles, the winner being a vehicle whose position improved
\* in the event's candidate group and the loser one whose position got
\* worse in it.
C29_WinnerOvertakesLoser ==
    FirstRaceProcessed =>
        ForSomeGrouping(RaceGroup(L3Table(l3_in), L3Races(l3_in)[1]),
            L3Races(l3_in)[1],
            LAMBDA groups, cur, track_length :
                \A k \in DOMAIN l3_all : \E g \in DOMAIN groups :
                    OvertakeOfGroup(l3_all[k],
                        RaceGroup(L3Table(l3_in), L3Races(l3_in)[1]),
                        track_length, cur,
                        PrevRow(RaceGroup(L3Table(l3_in), L3Races(l3_in)[1])),
                        groups[g]))

-----------------------------------------------------------------------------
(* Causal analysis claims (SpecL4)                                         *)

L4Ended == l4_out # "pending"

\* C10: once run_causal_analysis has ended on a non-empty event list,
\* every event of the list carries a Reason_Code of the enumeration.
C10_ReasonCodeOfEnum ==
    L4Ended => \A i \in DOMAIN l4_events :
                  l4_events[i].Reason_Code \in ReasonCodes

L4Returned == l4_out = "returned"

\* the race files the returned call has rewritten
L4Rewritten ==
    {rc \in DOMAIN l4_files :
        L4Returned /\ \E i \in DOMAIN l4_events :
            <<l4_events[i].Track, l4_events[i].Race_Number>> = rc}

IsDigit(c) == \E k \in DOMAIN Digit : Digit[k] = c

\* the text is an optional sign, digits, and at most one decimal point
IsSignedDecimal(text) ==
    LET body == IF text # <<>> /\ text[1] \in {"-", "+"}
                THEN Tail(text) ELSE text
        points == {i \in DOMAIN body : body[i] = "."}
    IN /\ Cardinality(points) <= 1
       /\ \E i \in DOMAIN body : IsDigit(body[i])
       /\ \A i \in DOMAIN body \ points : IsDigit(body[i])

\* C11: once run_causal_analysis has returned, every event of the list and
\* every record of the rewritten race files, those tagged Data_Missing or
\* Invalid_Sector included, holds a Reason_Value that reads as a signed
\* decimal.
C11_ReasonValueDecimal ==
    L4Returned =>
        /\ \A i \in DOMAIN l4_events :
               IsSignedDecimal(l4_events[i].Reason_Value)
        /\ \A rc \in L4Rewritten :
               \A i \in DOMAIN l4_files[rc] :
                   IsSignedDecimal(l4_files[rc][i].Reason_Value)

\* the winner or the loser of the event has no row of the event's sector
\* within 1.5 s of the event
SliceEmpty(event) ==
    \E vehicle \in {event.Winner_ID, event.Loser_ID} :
        WindowSlice(L4Table(l4_in), vehicle, event.Sector_ID,
                    event.Timestamp - ANALYSIS_WINDOW_MS,
                    event.Timestamp + ANALYSIS_WINDOW_MS) = <<>>

\* the records of the rewritten file of the event's race that carry the
\* event's Critical_Event_ID
RecordsOf(event) ==
    LET rc == <<event.Track, event.Race_Number>>
    IN IF rc \notin L4Rewritten THEN {}
       ELSE {j \in DOMAIN l4_files[rc] :
                l4_files[rc][j].Critical_Event_ID = event.Critical_Event_ID}

\* C14: once run_causal_analysis has ended on a non-empty event list, every
\* event of the list appears exactly once, with its Critical_Event_ID, in
\* the rewritten file of its (Track, Race_Number); there an event whose
\* Sector_ID does not begin with S_ is tagged Invalid_Sector and one whose
\* winner or loser has no rows in the window is tagged Data_Missing.
C14_EveryEventKept ==
    (L4Ended /\ l4_events # <<>>) =>
        \A i \in DOMAIN l4_events :
            LET event == l4_events[i]
                rc == <<event.Track, event.Race_Number>>
            IN /\ Cardinality(RecordsOf(event)) = 1
               /\ \A j \in RecordsOf(event) :
                      /\ IsInvalidSector(event.Sector_ID) =>
                             l4_files[rc][j].Reason_Code = "Invalid_Sector"
                      /\ (~IsInvalidSector(event.Sector_ID) /\ SliceEmpty(event)) =>
                             l4_files[rc][j].Reason_Code = "Data_Missing"

\* causal_analysis.py 58-134: the deltas dictionary of an event that is
\* analysed (its slices hold rows and the Gear modes exist)
EventDeltas(df, event) ==
    LET analysis_window_start == event.Timestamp - ANALYSIS_WINDOW_MS
        analysis_window_end == event.Timestamp + ANALYSIS_WINDOW_MS
        winner_data == WindowSlice(df, event.Winner_ID, event.Sector_ID,
                                   analysis_window_start, analysis_window_end)
        loser_data == WindowSlice(df, event.Loser_ID, event.Sector_ID,
                                  analysis_window_start, analysis_window_end)
        brake == BrakeDeltas(df, winner_data, loser_data, event.Timestamp)
    IN [Brake_Pressure_Delta |-> brake.Brake_Pressure_Delta,
        Brake_Timing_Delta |-> brake.Brake_Timing_Delta,
        Throttle_Commit_Delta |->
            ThrottleDelta(df, winner_data, loser_data, analysis_window_start),
        Gear_Delta |-> GearDelta(df, winner_data, loser_data)]

\* the events the loop of run_causal_analysis has given a delta code
L4Analysed ==
    {k \in DOMAIN l4_events :
        k < l4_next /\ l4_events[k].Reason_Code \in Range(ReasonOrder)}

\* ten times the normalized magnitude of delta number j, as an exact
\* number m * 2^e: the weights are 10 * (10, 0.5, 0.1, 5); a delta that
\* is NaN has no magnitude
Weighted(deltas, j) ==
    [nan |-> deltas[ReasonOrder[j]].nan, neg |-> FALSE,
     m |-> NatMulSmall(deltas[ReasonOrder[j]].m, (<<100, 5, 1, 50>>)[j]),
     e |-> deltas[ReasonOrder[j]].e]

\* number c is the earliest delta of the largest normalized magnitude:
\* it is a number, no delta has a larger magnitude and every earlier
\* delta that is a number has a smaller one
IsPrimary(deltas, c) ==
    /\ ~deltas[ReasonOrder[c]].nan
    /\ \A j \in 1..4 : ~FGreater(Weighted(deltas, j), Weighted(deltas, c))
    /\ \A j \in 1..(c - 1) :
           ~deltas[ReasonOrder[j]].nan
               => FGreater(Weighted(deltas, c), Weighted(deltas, j))

\* C26: primary reason. The Reason_Code of an analysed event is the delta
\* with the largest normalized magnitude among |10 * Brake_Pressure_Delta|,
\* |0.5 * Brake_Timing_Delta|, |0.1 * Throttle_Commit_Delta| and
\* |5 * Gear_Delta|, the earliest of them in this order on a tie (all
\* deltas zero gives Brake_Pressure_Delta), and its Reason_Value is the
\* signed, un-normalized delta of that code written with two decimals.
C26_PrimaryReason ==
    \A k \in L4Analysed :
        LET deltas == EventDeltas(L4Table(l4_in), l4_events[k])
            c == CHOOSE j \in 1..4 : ReasonOrder[j] = l4_events[k].Reason_Code
        IN /\ IsPrimary(deltas, c)
           /\ l4_events[k].Reason_Value = Format2f(deltas[ReasonOrder[c]])
           /\ IsSignedDecimal(l4_events[k].Reason_Value)

\* the rows of a vehicle in the analysis window of an event
EventSlice(df, event, vehicle) ==
    WindowSlice(df, vehicle, event.Sector_ID,
                event.Timestamp - ANALYSIS_WINDOW_MS,
                event.Timestamp + ANALYSIS_WINDOW_MS)

\* the lap distance of the earliest row of the slice with a brake pressure
\* above 0.5 bar, NaN when the slice has none
FirstCrossing(rows) ==
    LET above == {i \in DOMAIN rows : 10 * rows[i].pbrake_f > 5}
        first == CHOOSE i \in above : \A j \in above : rows[i].Time <= rows[j].Time
    IN IF above = {} THEN NaN ELSE rows[first].Laptrigger_lapdist_dls

\* C27: for an analysed event both of whose vehicles cross 0.5 bar of
\* brake pressure in the +/-1.5 s window, Brake_Timing_Delta is the lap
\* distance of the loser's first crossing in the window minus that of the
\* winner's, also when a first crossing lies at or after the event time.
C27_BrakeTimingInWindow ==
    \A k \in L4Analysed :
        LET df == L4Table(l4_in)
            winner_first == FirstCrossing(EventSlice(df, l4_events[k],
                                                     l4_events[k].Winner_ID))
            loser_first == FirstCrossing(EventSlice(df, l4_events[k],
                                                    l4_events[k].Loser_ID))
        IN ("pbrake_f" \in df.columns /\ winner_first # NaN /\ loser_first # NaN)
               => EventDeltas(df, l4_events[k]).Brake_Timing_Delta
                      = FromInt(loser_first - winner_first)

-----------------------------------------------------------------------------
(* Ingestion claims (SpecL1)                                               *)

L1Returned == l1_out.status = "returned"

\* the rows of the Master Table in the (Race_Number, Vehicle_ID)
\* partition of row i
PartitionOf(rows, i) ==
    {j \in DOMAIN rows : /\ rows[j].Race_Number = rows[i].Race_Number
                         /\ rows[j].Vehicle_ID = rows[i].Vehicle_ID}

\* C4: in every (Race_Number, Vehicle_ID) partition of the returned
\* Master Table no timestamp occurs twice and every timestamp but the
\* latest is followed by the one 50 ms later.
C4_UniformGrid ==
    L1Returned =>
        \A i \in DOMAIN l1_out.rows :
            LET rows == l1_out.rows
                part == PartitionOf(rows, i)
            IN /\ \A j \in part \ {i} : rows[j].Time # rows[i].Time
               /\ (\E j \in part : rows[j].Time > rows[i].Time)
                     => \E j \in part : rows[j].Time = rows[i].Time + GRID_MS

L1Ended == l1_out.status # "pending"

\* the files of the call whose own processing yields rows
L1GoodFiles ==
    {k \in DOMAIN l1_in :
        ~FolderRaises(l1_in[k].folder) /\ FileRows(l1_in[k]) # <<>>}

\* C16: failure isolation. Once ingest_and_synchronize_data has ended, it
\* has returned the failure signal None if and only if no file produced
\* rows, and otherwise a table that holds the rows of every file whose own
\* processing succeeded, whatever happened to the other files (an error in
\* deriving track and race from the folder name included).
C16_FailureIsolation ==
    L1Ended =>
        /\ l1_out.status = "None" <=> L1GoodFiles = {}
        /\ L1GoodFiles # {} =>
               /\ l1_out.status = "returned"
               /\ Len(l1_out.rows)
                      = ColSum([k \in DOMAIN l1_in |->
                                   [n |-> IF k \in L1GoodFiles
                                          THEN Len(FileRows(l1_in[k])) ELSE 0]],
                               "n")
               /\ \A k \in L1GoodFiles :
                      \A j \in DOMAIN FileRows(l1_in[k]) :
                          \E r \in DOMAIN l1_out.rows :
                              l1_out.rows[r] = FileRows(l1_in[k])[j]

HasUnderscore(name) == \E i \in DOMAIN name : name[i] = "_"

\* the text before and the text after the first underscore of name
AtFirstUnderscore(name) ==
    LET i == MinOf({k \in DOMAIN name : name[k] = "_"})
    IN <<SubSeq(name, 1, i - 1), SubSeq(name, i + 1, Len(name))>>

\* C20: for every file in a folder whose name contains one or more
\* underscores the call does not raise, and the rows the file contributes
\* carry as Track the text before the first underscore and as Race_Number
\* everything after it.
C20_SplitAtFirstUnderscore ==
    L1Ended =>
        \A k \in DOMAIN l1_in : HasUnderscore(l1_in[k].folder) =>
            /\ l1_out.status # "raised"
            /\ (l1_out.status = "returned" /\ FileRows(l1_in[k]) # <<>>) =>
                   \A j \in DOMAIN FileRows(l1_in[k]) :
                       \E r \in DOMAIN l1_out.rows :
                           /\ l1_out.rows[r].Time = FileRows(l1_in[k])[j].Time
                           /\ l1_out.rows[r].Speed = FileRows(l1_in[k])[j].Speed
                           /\ l1_out.rows[r].Track
                                  = AtFirstUnderscore(l1_in[k].folder)[1]
                           /\ l1_out.rows[r].Race_Number
                                  = AtFirstUnderscore(l1_in[k].folder)[2]

\* the vehicles whose samples a telemetry file holds
VehiclesOf(file) == {file.rows[i].vehicle_id : i \in DOMAIN file.rows}

\* the raw samples of vehicle v in the file
SamplesOf(file, v) == SelectSeq(file.rows, LAMBDA r : r.vehicle_id = v)

\* C19: for a telemetry file that holds samples of two or more vehicles,
\* the returned table has a partition for each of them: every 50 ms bucket
\* that holds raw samples of a vehicle has an output row stamped with that
\* vehicle's Vehicle_ID whose Speed is the mean of the vehicle's samples.
C19_PartitionPerVehicle ==
    (L1Ended /\ \A k \in DOMAIN l1_in : ~FolderRaises(l1_in[k].folder)) =>
        \A k \in DOMAIN l1_in : Cardinality(VehiclesOf(l1_in[k])) >= 2 =>
            /\ l1_out.status = "returned"
            /\ \A v \in VehiclesOf(l1_in[k]) :
                   \A i \in DOMAIN SamplesOf(l1_in[k], v) :
                       LET label == BucketOf(SamplesOf(l1_in[k], v)[i].Time)
                       IN \E r \in DOMAIN l1_out.rows :
                              /\ l1_out.rows[r].Vehicle_ID = v
                              /\ l1_out.rows[r].Time = label
                              /\ l1_out.rows[r].Speed
                                     = BucketMean(SamplesOf(l1_in[k], v), label)

\* the file holds two successive samples i, i + 1 of one vehicle that lie
\* more than 1 s apart
GapAfter(file, i) ==
    /\ i + 1 \in DOMAIN file.rows
    /\ file.rows[i].vehicle_id = file.rows[i + 1].vehicle_id
    /\ file.rows[i + 1].Time - file.rows[i].Time > 1000

\* C23: the samples of a vehicle are split into segments at every gap of
\* more than 1 s and each segment is resampled on its own, so the table
\* returned for a file has no row whose timestamp lies inside such a gap
\* (after the bucket of the sample before it and before the bucket of the
\* sample after it).
C23_NoRowsInsideGaps ==
    (L1Returned /\ Len(l1_in) = 1) =>
        \A i \in DOMAIN l1_in[1].rows : GapAfter(l1_in[1], i) =>
            \A r \in DOMAIN l1_out.rows :
                ~(/\ l1_out.rows[r].Time > BucketOf(l1_in[1].rows[i].Time)
                  /\ l1_out.rows[r].Time < BucketOf(l1_in[1].rows[i + 1].Time))

\* the rows a file contributes when all its rows are read as one chunk
SingleChunkRows(file) ==
    IF file.rows = <<>> \/ ChunkRaises(file.rows) THEN <<>>
    ELSE Stamped(ChunkSynced(file.rows), file.folder)

\* C30: the result for a file does not depend on how the file is cut into
\* read chunks: the table returned for a file read in chunks of CHUNK_SIZE
\* rows holds the same rows, each as often and with the same values, as
\* the file resampled as a single chunk.
C30_ChunkingIndependent ==
    (L1Ended /\ Len(l1_in) = 1 /\ ~FolderRaises(l1_in[1].folder)) =>
        IF SingleChunkRows(l1_in[1]) = <<>> THEN l1_out.status = "None"
        ELSE /\ l1_out.status = "returned"
             /\ Len(l1_out.rows) = Len(SingleChunkRows(l1_in[1]))
             /\ Range(l1_out.rows) = Range(SingleChunkRows(l1_in[1]))

-----------------------------------------------------------------------------
(* Export claims (SpecL5)                                                  *)

L5Returned == l5_out.status = "returned"

\* the events of the race files that exist, as a set
L5OnDisk ==
    UNION {Range(l5_files[rc].events) : rc \in DOMAIN l5_files}

\* how often the event occurs in the list
Occurrences(events, event) ==
    Cardinality({k \in DOMAIN events : events[k] = event})

\* the sum of the counts of the tracks
RECURSIVE SumOfCounts(_, _)
SumOfCounts(counts, tracks) ==
    IF tracks = {} THEN 0
    ELSE LET track == CHOOSE t \in tracks : TRUE
         IN counts[track] + SumOfCounts(counts, tracks \ {track})

\* C28: event consolidation conserves events. After consolidate_event_data
\* with at least one event on disk, all_events.json lists every event of
\* every race file exactly once and nothing else, total_events is the
\* length of that list and the sum of the events_by_track counts, and
\* each event is in exactly one <track>_events.json, that of its Track.
C28_ConsolidationConserves ==
    (L5Returned /\ L5OnDisk # {}) =>
        LET master == l5_dir.master IN
        /\ master.present
        /\ \A event \in L5OnDisk : Occurrences(master.events, event) = 1
        /\ Range(master.events) = L5OnDisk
        /\ master.total_events = Len(master.events)
        /\ master.total_events
               = SumOfCounts(master.events_by_track,
                             DOMAIN master.events_by_track)
        /\ \A event \in L5OnDisk : \A track \in DOMAIN l5_dir.tracks :
               Occurrences(l5_dir.tracks[track].events, event)
                   = IF track = event.Track THEN 1 ELSE 0

\* C28 witness: a call has consolidated three race files of two tracks,
\* one of them with two events
C28_Witness ==
    /\ L5Returned
    /\ \A rc \in DOMAIN l5_files : l5_files[rc].present
    /\ \E rc \in DOMAIN l5_files : Len(l5_files[rc].events) = 2

====
